---------------------------- MODULE MCScheduler -----------------------------
(* Three configured tasks for a table of two: the first runs every tick, the *)
(* second every other one, a tick later; the third is dropped.               *)
EXTENDS Scheduler

MCPeriod == <<2, 4, 2>>

MCOffset == <<0, 2, 0>>

MCPolicy == <<"ALWAYS_RUN", "CONTROL_ONLY", "SKIP_ON_FAULT">>
=============================================================================
