---------------------------- MODULE MCNvsStorage ----------------------------
(* Two tasks and two settings of two values each. *)
EXTENDS NvsStorage
=============================================================================
