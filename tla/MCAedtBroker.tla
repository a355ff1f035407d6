----------------------------- MODULE MCAedtBroker ----------------------------
(* Two threads on one desktop that is known by its process and by its port. *)
EXTENDS AedtBroker

OneDesktop == [k \in Keys |-> Keys]
=============================================================================
