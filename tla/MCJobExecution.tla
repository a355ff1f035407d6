--------------------------- MODULE MCJobExecution ---------------------------
(* Small instances of JobExecution for TLC. *)
EXTENDS JobExecution, TLC

(* Calls, recoverers and jobs are interchangeable; not used with liveness. *)
Interchangeable == Permutations(Execs) \cup Permutations(Recoverers)
                     \cup Permutations(Jobs)
=============================================================================
