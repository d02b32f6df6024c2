---------------------------- MODULE MCScheduler ----------------------------
(***************************************************************************)
(* None, one or two service threads, a task to run once and a repeated one. *)
(***************************************************************************)
EXTENDS Scheduler

CONSTANTS s1, s2, once, again
MCThreads == {s1, s2}
MCTasks   == {once, again}
MCPeriod  == [k \in MCTasks |-> IF k = again THEN 1 ELSE 0]
=============================================================================
