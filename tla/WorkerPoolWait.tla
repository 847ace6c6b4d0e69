--------------------------- MODULE WorkerPoolWait ---------------------------
(***************************************************************************)
(* A client of the worker pool that calls WorkerPool.WaitForCompletion     *)
(* (src/pkg/workflow/worker_pool.go): every 100ms it reads two counters,   *)
(* one after the other, and returns nil the first time both are zero.      *)
(* The pool's own steps are those of WorkerPool.                           *)
(***************************************************************************)
EXTENDS WorkerPool

VARIABLES
    waiter,   \* where the call is
    waitFor   \* jobs whose Submit had returned nil when it was made

waitVars == <<vars, waiter, waitFor>>

WaitInit ==
    /\ Init
    /\ waiter = "idle"
    /\ waitFor = {}

WaitMove(from, to) ==
    /\ Up /\ waiter = from
    /\ waiter' = to
    /\ UNCHANGED vars

WaitForCompletion ==
    /\ starts > 0
    /\ WaitMove("idle", "polling")
    /\ waitFor' = {j \in Job : sub[j] \in {"accepted", "backoff", "completed", "failed"}}

ReadQueueDepth ==
    /\ metrics.queueDepth = 0
    /\ WaitMove("polling", "depthZero")
    /\ UNCHANGED waitFor

ReadTasksProcessing ==
    /\ WaitMove("depthZero", IF metrics.tasksProcessing = 0 THEN "returned" ELSE "polling")
    /\ UNCHANGED waitFor

WaitTimeout ==
    /\ WaitMove("polling", "gaveUp")
    /\ UNCHANGED waitFor

WaitNext ==
    \/ Next /\ UNCHANGED <<waiter, waitFor>>
    \/ WaitForCompletion \/ ReadQueueDepth \/ ReadTasksProcessing \/ WaitTimeout

WaitSpec == WaitInit /\ [][WaitNext]_waitVars

\* worker_pool.go:415: "WaitForCompletion waits for all tasks to complete or
\* timeout".  When it returns nil, every task submitted before the call has
\* completed or has failed for good.
WaitMeansComplete ==
    waiter = "returned" => \A j \in waitFor : sub[j] \in {"completed", "failed"}
=============================================================================
