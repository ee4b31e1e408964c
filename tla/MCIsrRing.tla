----------------------------- MODULE MCIsrRing -----------------------------
(* The ISR ring with four slots (three usable) and two distinguishable events. *)
EXTENDS IsrRing
=============================================================================
