-------------------------- MODULE MCTaskScheduler --------------------------
(* Three slots, one of them the idle task's, and two priorities; the          *)
(* firmware's own configuration and a preemptive one without a time slice.    *)
EXTENDS TaskScheduler

MCConfigs == {[preemptive_enabled |-> FALSE, time_slice_ms |-> 10],
              [preemptive_enabled |-> TRUE, time_slice_ms |-> 0]}
=============================================================================
