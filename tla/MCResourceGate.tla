--------------------------- MODULE MCResourceGate ---------------------------
(* Three workers that compete for one license, one desktop and two CPUs.    *)
EXTENDS ResourceGate, TLC

Limits == [license |-> 1, aedt |-> 1, cpu |-> 2]
Interchangeable == Permutations(Callers)
=============================================================================
