--------------------------- MODULE MCResearchGraph ---------------------------
(* An instance for TLC: the one task parseTasksFromResponse plans, with    *)
(* the priority it gives it.                                               *)
EXTENDS ResearchGraph

MCPriority == [t \in TaskID |-> 1]
=============================================================================
