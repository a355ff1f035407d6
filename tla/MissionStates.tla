--------------------------- MODULE MissionStates ---------------------------
(***************************************************************************)
(* The mission state machine: the table every write of a mission's state   *)
(* goes through (store.update_mission_state calls assert_transition).      *)
(***************************************************************************)

AllowedTransitions ==
  [CREATED          |-> {"PLANNING", "WAITING_WORKER", "CANCELED"},
   PLANNING         |-> {"WAITING_WORKER", "WAITING_APPROVAL", "FAILED", "CANCELED"},
   WAITING_WORKER   |-> {"EVALUATING", "WAITING_APPROVAL", "FAILED", "CANCELED"},
   WAITING_APPROVAL |-> {"WAITING_WORKER", "PLANNING", "FAILED", "CANCELED"},
   EVALUATING       |-> {"WAITING_WORKER", "WAITING_APPROVAL", "COMPLETED",
                         "FAILED", "CANCELED"},
   COMPLETED        |-> {},
   FAILED           |-> {},
   CANCELED         |-> {}]

MissionState == {"CREATED", "PLANNING", "WAITING_WORKER", "WAITING_APPROVAL",
                 "EVALUATING", "COMPLETED", "FAILED", "CANCELED"}

TerminalMission == {"COMPLETED", "FAILED", "CANCELED"}

(* update_mission_state(to) succeeds: writing the current state again is a  *)
(* no-op, any other write must be in the table, else the call raises.       *)
CanWrite(from, to) == to = from \/ to \in AllowedTransitions[from]
=============================================================================
