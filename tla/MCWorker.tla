------------------------------ MODULE MCWorker ------------------------------
(* An instance of one worker for TLC. *)
EXTENDS Worker

MCPriority == [t \in TaskID |-> 1]
=============================================================================
