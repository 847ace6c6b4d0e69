---------------------------- MODULE MCSupervisor ----------------------------
(* Instances of the supervisor for TLC: tasks of three priority classes,   *)
(* one of them a child, and workers in the order of pool.workers.          *)
EXTENDS Supervisor

CONSTANTS t1, t2, t3, w1, w2, w3

MCPriority == t1 :> 1 @@ t2 :> 3 @@ t3 :> 7
MCStartWorkers == <<w1, w2>>
=============================================================================
