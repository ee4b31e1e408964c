------------------------- MODULE MCEventScheduler -------------------------
(* A few events, recurring ones that stay due among them; callbacks that    *)
(* schedule later events, or urgent ones like raise_interrupt does (delay 0, *)
(* CRITICAL).                                                               *)
EXTENDS EventScheduler

Later == {<<1, 2>>}
Urgent == {<<0, 0>>}
=============================================================================
