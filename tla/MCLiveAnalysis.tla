--------------------------- MODULE MCLiveAnalysis ---------------------------
(* A small instance of LiveAnalysis for TLC. *)
EXTENDS LiveAnalysis

\* Every setup has an old solution, or none.
AllOrNone == {{}, Setups}
=============================================================================
