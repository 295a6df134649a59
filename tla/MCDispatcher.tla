---------------------------- MODULE MCDispatcher ----------------------------
(* Dispatcher on a small instance: two slots, so at most two queued jobs,  *)
(* and one job more than the pool takes, so that refusals happen.          *)
EXTENDS Dispatcher

CONSTANTS j1, j2, j3, j4, j5

MCJobs == {j1, j2, j3, j4, j5}
=============================================================================
