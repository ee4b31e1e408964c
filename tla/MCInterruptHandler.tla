------------------------- MODULE MCInterruptHandler -------------------------
(* Two pins, GPIO 0 among them, and rings and queues that fill quickly. *)
EXTENDS InterruptHandler
=============================================================================
