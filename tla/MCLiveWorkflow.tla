--------------------------- MODULE MCLiveWorkflow ---------------------------
EXTENDS LiveWorkflow, TLC

CONSTANTS edit, second, look

Ids == 1 .. 2
PlanNames == {edit, second, look}

Bounds(p, e, f, n) ==
  [previews |-> p, edits |-> e, faults |-> f, stops |-> n,
   issues |-> IF p > 0 THEN 2 ELSE 1, atonce |-> IF n > 0 THEN 1 ELSE 2]
With(modes, tools, plans, flow, attached, bounds) ==
  [modes |-> modes, tools |-> tools, plans |-> plans, flow |-> flow,
   attached |-> attached] @@ bounds
ToolUse(tools, attached, bounds) == With(Modes, tools, {}, "none", attached, bounds)
PlanUse(plans, attached, bounds) == With(Modes, {}, plans, "none", attached, bounds)
FlowUse(modes, flow, attached, bounds) == With(modes, {}, {}, flow, attached, bounds)

\* All tools of a family, so that a token of one is tried on the others.
ToolUses ==
  {With({"desktop", "automatic"}, family, {}, "none", <<"pid">>, Bounds(2, 0, 0, 0)) :
     family \in ToolFamilies}
\* Edits and a lost answer in between; two sessions of one desktop by one name and by
\* two; a restart.
SessionUses ==
  {ToolUse({variable_upsert}, <<"pid">>, Bounds(2, 2, 1, 0)),
   ToolUse({variable_upsert}, <<"pid", "pid">>, Bounds(2, 0, 0, 0)),
   ToolUse({variable_upsert}, <<"pid", "port">>, Bounds(2, 0, 0, 0)),
   ToolUse({variable_upsert}, <<"pid", "port">>, Bounds(2, 0, 0, 1))}
\* Two plans at once; one beside a plan that only reads; a failing write; a restart.
PlanUses ==
  {PlanUse({edit, second}, <<"pid">>, Bounds(0, 0, 0, 0)),
   PlanUse({edit, look}, <<"pid">>, Bounds(0, 0, 0, 0)),
   PlanUse({edit}, <<"pid">>, Bounds(0, 1, 1, 0)),
   PlanUse({edit}, <<"pid", "pid">>, Bounds(0, 0, 0, 1))}
FlowUses == {FlowUse(Modes, flow, <<"pid">>, Bounds(0, 0, 0, 0)) : flow \in LiveSessionWorkflows}
\* A restart inside a short flow; a repeated preview; a lost answer; an edit or a switch
\* of the active design; two sessions that both advance it.
Short == "hfss_live_geometry_move"
FlowFaults ==
  {FlowUse({"desktop", "automatic"}, Short, <<"pid", "pid">>, Bounds(0, 0, 0, 1)),
   FlowUse({"automatic"}, Short, <<"pid">>, Bounds(2, 0, 0, 0)),
   FlowUse({"desktop"}, Short, <<"pid">>, Bounds(0, 1, 1, 0)),
   FlowUse({"automatic"}, "layout_live_audit", <<"pid", "pid">>, Bounds(0, 0, 0, 0))}

\* A tool and a plan beside a flow.
MixedUses ==
  {With({"automatic"}, {variable_upsert}, {}, Short, <<"pid">>, Bounds(1, 0, 0, 0)),
   With({"desktop"}, {variable_upsert}, {look}, Short, <<"pid">>, Bounds(1, 0, 0, 0))}

\* The desktop host, and nothing that goes wrong.
NestedUse == {FlowUse({"desktop"}, Short, <<"pid">>, Bounds(0, 0, 0, 0))}
AllUses == MixedUses \cup ToolUses \cup SessionUses \cup PlanUses \cup FlowUses \cup FlowFaults
ASSUME UsesApart == FlowsApart
Resource == Ids \X ((UNION {ToolsOf(u) : u \in AllUses} \cup {explore(c) : c \in PlanNames}
                     \cup {start, advance}) \X Nat)
=============================================================================
