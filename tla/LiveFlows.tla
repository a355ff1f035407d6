----------------------------- MODULE LiveFlows ------------------------------
(***************************************************************************)
(* The graph templates that work in an attached AEDT session, as the       *)
(* sequences of nodes their handlers make of them.  A node reads, makes    *)
(* the preview of an operation, applies the operation whose preview is in  *)
(* its input, polls the solver, or scores what was done.  What a handler   *)
(* looks at inside the inventories, results and checks is left out: it     *)
(* decides between going on and failing, and both happen.                  *)
(***************************************************************************)
EXTENDS Sequences, LiveTools

Node(id, kind, tool) == [id |-> id, kind |-> kind, tool |-> tool]
NoTool == Guarded("", "")

Read(id) == <<Node(id, "read", NoTool)>>
Polls(id) == <<Node(id, "poll", NoTool)>>
Score(id) == <<Node(id, "score", NoTool)>>
(* The output of the preview carries the operation_preview_id that the      *)
(* apply uses; the apply needs the operation's own approval token.          *)
Operation(id, tool) == <<Node(id, "preview", tool), Node("apply", "apply", tool)>>
Change(id, tool) == Operation(id, tool) \o Score("verify_scorecard")

(* One change, verified.                                                    *)
variable_batch_upsert_flow            == Change("preview_variables", variable_batch_upsert)
hfss_geometry_create_flow             == Change("preview_geometry", hfss_geometry_create)
hfss_geometry_move_flow ==
  Change("preview_geometry_moves", hfss_geometry_move)
hfss_geometry_rotate_flow ==
  Change("preview_geometry_rotations", hfss_geometry_rotate)
hfss_antipad_subtract_flow            == Change("preview_antipad", hfss_antipad_subtract)
hfss_material_create_flow             == Change("preview_material", hfss_material_create)
hfss_material_update_flow ==
  Change("preview_material_updates", hfss_material_update)
hfss_material_delete_flow ==
  Change("preview_material_deletions", hfss_material_delete)
layout_material_create_assign_flow ==
  Change("preview_material_assignment", layout_material_create_assign)
layout_via_create_flow                == Change("preview_vias", layout_via_create)
layout_via_update_flow                == Change("preview_via_updates", layout_via_update)
layout_via_delete_flow                == Change("preview_via_deletions", layout_via_delete)
layout_antipad_circle_create_flow ==
  Change("preview_antipads", layout_antipad_circle_create)
hfss_material_assign_flow ==
  Change("preview_material_assignment", hfss_material_assign)
hfss_length_mesh_create_flow ==
  Change("preview_length_mesh", hfss_length_mesh_create)
hfss_infinite_sphere_create_flow ==
  Change("preview_infinite_sphere", hfss_infinite_sphere_create)
hfss_surface_boundary_create_flow ==
  Change("preview_surface_boundary", hfss_surface_boundary_create)
hfss_coordinate_system_create_flow ==
  Change("preview_coordinate_system", hfss_coordinate_system_create)
hfss_port_create_flow                 == Change("preview_port", hfss_boundary)
hfss_geometry_boundary_create_flow ==
  Change("preview_geometry_boundaries", hfss_geometry_boundary_create)
hfss_setup_sweep_create_flow ==
  Change("preview_setup_sweep", hfss_setup_sweep_create)

layout_audit            == Read("collect_live_inventory") \o Score("audit_scorecard")
discover_component      == Read("discover_candidates")
validate_component      == Read("validate_selection")
component_ports         == Change("preview_port_creation", layout_component_ports_create)
discover_edge           == Read("discover_edge_candidates")
validate_edge           == Read("validate_edge_selection")
edge_ports              == Change("preview_edge_ports", layout_edge_ports_create)
select_paths            == Read("select_paths")
width                   == Operation("preview_parameterization", layout_width)
verify_width            == Score("verify_scorecard")
validate_setup          == Read("validate_setup")
analysis                == Operation("preview_analysis", hfss_analysis_start)
verify_submission       == Score("verify_submission")
validate_monitor        == Read("validate_setup")
poll_analysis           == Polls("poll_analysis")
verify_stopped          == Score("verify_stopped")
validate_export         == Read("validate_export")
export                  == Operation("preview_export", hfss_export)
verify_export           == Score("verify_export")
validate_score_request  == Read("validate_score_request")
score_touchstone        == Score("score_touchstone")

solve      == validate_setup \o analysis
solved     == solve \o poll_analysis
touchstone == validate_score_request \o export \o score_touchstone

Flows ==
 [aedt_live_variable_batch_upsert |-> variable_batch_upsert_flow,
  hfss_live_geometry_create |-> hfss_geometry_create_flow,
  hfss_live_geometry_move |-> hfss_geometry_move_flow,
  hfss_live_geometry_rotate |-> hfss_geometry_rotate_flow,
  hfss_live_antipad_subtract |-> hfss_antipad_subtract_flow,
  hfss_live_material_create |-> hfss_material_create_flow,
  hfss_live_material_update |-> hfss_material_update_flow,
  hfss_live_material_delete |-> hfss_material_delete_flow,
  layout_live_material_create_assign |-> layout_material_create_assign_flow,
  layout_live_via_create |-> layout_via_create_flow,
  layout_live_via_update |-> layout_via_update_flow,
  layout_live_via_delete |-> layout_via_delete_flow,
  layout_live_antipad_circle_create |-> layout_antipad_circle_create_flow,
  hfss_live_material_assign |-> hfss_material_assign_flow,
  hfss_live_length_mesh_create |-> hfss_length_mesh_create_flow,
  hfss_live_infinite_sphere_create |-> hfss_infinite_sphere_create_flow,
  hfss_live_surface_boundary_create |-> hfss_surface_boundary_create_flow,
  hfss_live_coordinate_system_create |-> hfss_coordinate_system_create_flow,
  hfss_live_port_create |-> hfss_port_create_flow,
  hfss_live_geometry_boundary_create |-> hfss_geometry_boundary_create_flow,
  hfss_live_setup_sweep_create |-> hfss_setup_sweep_create_flow,
  layout_live_audit |-> layout_audit,
  layout_live_component_ports_create |->
    discover_component \o validate_component \o component_ports,
  layout_live_uniform_edge_ports_create |-> discover_edge \o validate_edge \o edge_ports,
  layout_live_parameterize_width |-> select_paths \o width \o verify_width,
  layout_live_solve_start |-> solve \o verify_submission,
  layout_live_solve_monitor |-> validate_monitor \o poll_analysis \o verify_stopped,
  layout_live_results_export |-> validate_export \o export \o verify_export,
  layout_live_touchstone_score |-> touchstone,
  layout_live_solve_export |-> solved \o validate_export \o export \o verify_export,
  layout_live_solve_touchstone_score |-> solved \o touchstone,
  layout_live_parameterize_solve_touchstone_score |->
    select_paths \o width \o Score("verify_parameterization") \o solved \o touchstone]

(* _operation_approval_requirement: after which nodes of which workflow the *)
(* next step must bring the token of an operation.                          *)
OperationNodes ==
 [aedt_live_variable_batch_upsert |-> {"preview_variables"},
  hfss_live_geometry_create |-> {"preview_geometry"},
  hfss_live_geometry_move |-> {"preview_geometry_moves"},
  hfss_live_geometry_rotate |-> {"preview_geometry_rotations"},
  hfss_live_antipad_subtract |-> {"preview_antipad"},
  hfss_live_material_create |-> {"preview_material"},
  hfss_live_material_update |-> {"preview_material_updates"},
  hfss_live_material_delete |-> {"preview_material_deletions"},
  layout_live_material_create_assign |-> {"preview_material_assignment"},
  layout_live_via_create |-> {"preview_vias"},
  layout_live_via_update |-> {"preview_via_updates"},
  layout_live_via_delete |-> {"preview_via_deletions"},
  layout_live_antipad_circle_create |-> {"preview_antipads"},
  hfss_live_material_assign |-> {"preview_material_assignment"},
  hfss_live_length_mesh_create |-> {"preview_length_mesh"},
  hfss_live_infinite_sphere_create |-> {"preview_infinite_sphere"},
  hfss_live_surface_boundary_create |-> {"preview_surface_boundary"},
  hfss_live_coordinate_system_create |-> {"preview_coordinate_system"},
  hfss_live_port_create |-> {"preview_port"},
  hfss_live_geometry_boundary_create |-> {"preview_geometry_boundaries"},
  hfss_live_setup_sweep_create |-> {"preview_setup_sweep"},
  layout_live_component_ports_create |-> {"preview_port_creation"},
  layout_live_uniform_edge_ports_create |-> {"preview_edge_ports"},
  layout_live_parameterize_width |-> {"preview_parameterization"},
  layout_live_parameterize_solve_touchstone_score |->
    {"preview_parameterization", "preview_analysis", "preview_export"},
  layout_live_results_export |-> {"preview_export"},
  layout_live_solve_export |-> {"preview_analysis", "preview_export"},
  layout_live_solve_start |-> {"preview_analysis"},
  layout_live_solve_touchstone_score |-> {"preview_analysis", "preview_export"},
  layout_live_touchstone_score |-> {"preview_export"}]

(* The workflows whose graph is tied to the session they run in.            *)
LiveSessionWorkflows == DOMAIN Flows
=============================================================================
