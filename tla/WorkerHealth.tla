---------------------------- MODULE WorkerHealth ----------------------------
(***************************************************************************)
(* How a researcher worker decides whether it may run a task: the          *)
(* WorkerHealthManager of src/pkg/workflow/worker_health.go and the        *)
(* TaskProcessor of task_processor.go, for one worker.  Three goroutines   *)
(* meet here: the worker's own loop, the periodic health check, and        *)
(* whoever reads the pool's statistics.  Two failure counters are kept,    *)
(* the breaker's and consecutiveFails, and updated one after the other.    *)
(*                                                                         *)
(* Time is three events: the breaker's open period ends, the last health   *)
(* check grows older than two intervals, a memory reading is high or low.  *)
(***************************************************************************)
EXTENDS CircuitBreaker

CONSTANTS
    MaxFails,      \* the literal 5 of "consecutiveFails.Load() > 5"
    MaxAttempts,   \* 1 + maxRetries of executeWithRetry, 3
    FailCap        \* bound: failures recorded before the worker takes no more tasks

ASSUME HealthAssumption ==
    {MaxFails, MaxAttempts, FailCap} \subseteq Nat \ {0}

VARIABLES
    breaker,            \* h.breaker
    isHealthy,          \* h.isHealthy, the verdict of the last health check
    stale,              \* time.Since(h.lastCheck) > 2*h.checkInterval
    memoryHigh,         \* h.memoryUsage > h.memoryLimit
    consecutiveFails,   \* h.consecutiveFails
    pc,                 \* where the worker is in ProcessTask
    attempt             \* attempts of executeWithRetry that have failed

vars == <<breaker, isHealthy, stale, memoryHigh, consecutiveFails, pc, attempt>>

\* "failing" and "succeeding": the breaker has recorded the outcome,
\* consecutiveFails has not.  "delivering": the result is about to be sent.
Place == {"idle", "executing", "failing", "succeeding", "delivering"}

Init ==
    /\ breaker = NewBreaker
    /\ isHealthy = TRUE /\ stale = FALSE /\ memoryHigh = FALSE
    /\ consecutiveFails = 0
    /\ pc = "idle" /\ attempt = 0

\* Mutant of Healthy: the failures in a row are not looked at.
HealthyDespiteFails == Permits(breaker) /\ ~stale /\ ~memoryHigh /\ isHealthy

\* IsHealthy; asking also leaves the breaker Probed.
Healthy ==
    /\ Permits(breaker)
    /\ ~stale /\ ~memoryHigh
    /\ consecutiveFails <= MaxFails
    /\ isHealthy

-----------------------------------------------------------------------------
(* The worker's loop.                                                      *)

\* Mutant of AcceptTask: only the cached verdict is asked, not the breaker.
AcceptOnVerdict ==
    /\ pc = "idle" /\ isHealthy /\ ~stale
    /\ breaker.failures < FailCap
    /\ \E high \in BOOLEAN : memoryHigh' = high
    /\ pc' = "executing" /\ attempt' = 0
    /\ UNCHANGED <<breaker, isHealthy, stale, consecutiveFails>>

\* CanExecute asks IsHealthy and then the breaker again.  A refused task is reported
\* on errorChan and gone: no failure is recorded.
AcceptTask ==
    /\ pc = "idle" /\ Healthy
    /\ breaker.failures < FailCap
    /\ breaker' = Probed(breaker)
    /\ \E high \in BOOLEAN : memoryHigh' = high     \* StartResourceTracking
    /\ pc' = "executing" /\ attempt' = 0
    /\ UNCHANGED <<isHealthy, stale, consecutiveFails>>

RefuseTask ==
    /\ pc = "idle" /\ ~Healthy
    /\ breaker' = Probed(breaker)
    /\ UNCHANGED <<isHealthy, stale, memoryHigh, consecutiveFails, pc, attempt>>

\* Mutant of RetryAttempt: one attempt too many.
RetryOnceMore ==
    /\ pc = "executing" /\ attempt < MaxAttempts
    /\ attempt' = attempt + 1
    /\ UNCHANGED <<breaker, isHealthy, stale, memoryHigh, consecutiveFails, pc>>

RetryAttempt ==
    /\ pc = "executing" /\ attempt + 1 < MaxAttempts
    /\ attempt' = attempt + 1
    /\ UNCHANGED <<breaker, isHealthy, stale, memoryHigh, consecutiveFails, pc>>

\* The breaker's half of RecordFailure, in handleTaskFailure or recoverFromPanic.
BreakerFailure ==
    /\ breaker' = RecordFailure(breaker)
    /\ pc' = "failing"
    /\ UNCHANGED <<isHealthy, stale, memoryHigh, consecutiveFails, attempt>>

TaskFails  == pc = "executing" /\ attempt + 1 = MaxAttempts /\ BreakerFailure
TaskPanics == pc = "executing" /\ BreakerFailure

\* The worker's result channel has been closed under it: the deferred recover
\* records a failure for a task whose success is already recorded.
DeliveryPanics == pc = "delivering" /\ BreakerFailure

TaskSucceeds ==
    /\ pc = "executing"
    /\ breaker' = RecordSuccess(breaker)
    /\ pc' = "succeeding"
    /\ UNCHANGED <<isHealthy, stale, memoryHigh, consecutiveFails, attempt>>

\* Mutant of ResetFails: the counter is left as it was.
KeepFails ==
    /\ pc = "succeeding" /\ pc' = "delivering"
    /\ UNCHANGED <<breaker, isHealthy, stale, memoryHigh, consecutiveFails, attempt>>

\* The counter's half of RecordSuccess.
ResetFails ==
    /\ pc = "succeeding"
    /\ consecutiveFails' = 0
    /\ pc' = "delivering"
    /\ UNCHANGED <<breaker, isHealthy, stale, memoryHigh, attempt>>

\* ProcessTask returns; the deferred StopResourceTracking reads the memory again.
Return ==
    /\ pc' = "idle" /\ attempt' = 0
    /\ \E high \in BOOLEAN : memoryHigh' = high
    /\ UNCHANGED <<breaker, isHealthy, stale>>

CountFail == pc = "failing" /\ consecutiveFails' = consecutiveFails + 1 /\ Return

\* The result was sent, or the task's context ended first.
EndDelivery == pc = "delivering" /\ UNCHANGED consecutiveFails /\ Return

WorkerStep ==
    \/ RetryAttempt \/ TaskFails \/ TaskPanics \/ TaskSucceeds \/ ResetFails
    \/ CountFail \/ EndDelivery \/ DeliveryPanics

-----------------------------------------------------------------------------
(* The other goroutines, and time.                                         *)

\* Mutant of PerformHealthCheck: it looks at the breaker without asking it.
CheckWithoutAsking ==
    /\ \E high \in BOOLEAN :
          /\ memoryHigh' = high
          /\ isHealthy' = (~high /\ breaker.state # "open")
    /\ stale' = FALSE
    /\ UNCHANGED <<breaker, consecutiveFails, pc, attempt>>

PerformHealthCheck ==
    /\ \E high \in BOOLEAN :
          /\ memoryHigh' = high
          /\ isHealthy' = (~high /\ Permits(breaker))
    /\ breaker' = Probed(breaker)
    /\ stale' = FALSE
    /\ UNCHANGED <<consecutiveFails, pc, attempt>>

\* IsHealthy or GetHealthStatus, called by GetStats or GetHealthStatus of the pool.
Observe ==
    /\ breaker' = Probed(breaker)
    /\ UNCHANGED <<isHealthy, stale, memoryHigh, consecutiveFails, pc, attempt>>

OpenPeriodEnds ==
    /\ breaker.state = "open" /\ ~breaker.cooled
    /\ breaker' = [breaker EXCEPT !.cooled = TRUE]
    /\ UNCHANGED <<isHealthy, stale, memoryHigh, consecutiveFails, pc, attempt>>

CheckGrowsStale ==
    /\ ~stale /\ stale' = TRUE
    /\ UNCHANGED <<breaker, isHealthy, memoryHigh, consecutiveFails, pc, attempt>>

Next ==
    \/ AcceptTask \/ RefuseTask \/ WorkerStep
    \/ PerformHealthCheck \/ Observe
    \/ OpenPeriodEnds \/ CheckGrowsStale

\* The ticker of StartHealthMonitoring fires every checkInterval and time passes.
Fairness == WF_vars(PerformHealthCheck) /\ WF_vars(OpenPeriodEnds)

Spec == Init /\ [][Next]_vars /\ Fairness

-----------------------------------------------------------------------------
\* Every variable has its type; the breaker's failures stay within the bound.
TypeOK ==
    /\ breaker \in Breaker /\ breaker.failures <= FailCap + 1
    /\ isHealthy \in BOOLEAN /\ stale \in BOOLEAN /\ memoryHigh \in BOOLEAN
    /\ consecutiveFails \in Nat
    /\ pc \in Place /\ attempt \in 0..(MaxAttempts - 1)

\* The breaker's three fields tell one story under any interleaving of its callers:
\* it is closed exactly while fewer than FailureThreshold failures are on record,
\* and trial successes are counted only while it is half-open, short of the number
\* that closes it.
BreakerCoherent ==
    /\ breaker.state = "closed" <=> breaker.failures < FailureThreshold
    /\ breaker.successCount < SuccessThreshold
    /\ breaker.successCount > 0 => breaker.state = "half-open"

\* The two failure counters agree whenever the worker is between tasks: equal while
\* the breaker is closed; afterwards a trial success clears consecutiveFails only.
CountersAgree ==
    pc = "idle" =>
        /\ consecutiveFails <= breaker.failures
        /\ breaker.state = "closed" => consecutiveFails = breaker.failures

\* No task runs on an open breaker, though the permission is checked long before the
\* outcome is recorded and the health check and observers use the same breaker.
NeverRunsOpen == pc \in {"executing", "delivering"} => breaker.state # "open"

\* Trial successes are not enough on their own: the breaker closes only with the
\* SuccessThreshold-th success in a row since it became half-open.
ClosesAfterTrials ==
    [][breaker.state # "closed" /\ breaker'.state = "closed" =>
          /\ breaker.state = "half-open"
          /\ breaker.successCount = SuccessThreshold - 1
          /\ pc' = "succeeding"]_vars

\* An open breaker becomes half-open in the end, because the periodic health check
\* asks it even when the worker refuses everything.
OpenIsTemporary == breaker.state = "open" ~> breaker.state # "open"

\* What the code does after one failed trial: with more than MaxFails failures in a
\* row and no task running the worker refuses every later task, whatever the
\* breaker says, because only a task that runs can reset consecutiveFails.
LockedOut == pc = "idle" /\ consecutiveFails > MaxFails
LockoutIsForever == [][LockedOut => LockedOut']_vars

\* circuit_breaker.go:17: CircuitHalfOpen "allows limited requests for testing".  A
\* half-open breaker with a recent, passing health check lets a task through.
HalfOpenAdmits ==
    pc = "idle" /\ breaker.state = "half-open" /\ isHealthy /\ ~stale /\ ~memoryHigh
        => Healthy
=============================================================================
