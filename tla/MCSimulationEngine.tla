------------------------- MODULE MCSimulationEngine -------------------------
(* One window, one engine, at most one simulation thread. *)
EXTENDS SimulationEngine
=============================================================================
