--------------------------- MODULE MCMissionLoop ---------------------------
(* Small instances of MissionLoop for TLC. *)
EXTENDS MissionLoop, TLC

(* Controllers and reviewers are interchangeable; not used with liveness. *)
Interchangeable == Permutations(Controllers) \cup Permutations(Reviewers)
=============================================================================
