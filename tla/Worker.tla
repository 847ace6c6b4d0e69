------------------------------- MODULE Worker -------------------------------
(***************************************************************************)
(* One worker of the pool: ProcessTask of src/pkg/workflow/worker.go with  *)
(* its circuit breaker (module CircuitBreaker), its health verdict, and    *)
(* its two writes to the GraphState of the task (module GraphState).       *)
(*                                                                         *)
(* IsHealthy answers from the last verdict.  When that is older than half  *)
(* a minute it also starts a goroutine that will make a new one, from the  *)
(* breaker and from a memory reading that only a running task takes.       *)
(***************************************************************************)
EXTENDS GraphState, CircuitBreaker

CONSTANTS
    NoTask,       \* the worker has no task
    MaxChecks,    \* bound: health checks started and not yet run
    MaxResults,   \* bound: tasks the worker completes; after that its research fails
    MaxPanics     \* bound: how often the research of one task panics

ASSUME WorkerAssumption ==
    NoTask \notin TaskID /\ {MaxChecks, MaxResults, MaxPanics} \subseteq Nat \ {0}

VARIABLES
    wpc,          \* where ProcessTask is
    task,         \* its task
    breaker,      \* w.breaker
    isHealthy,    \* w.isHealthy
    stale,        \* the last health check is more than thirty seconds old
    checks,       \* goroutines that will run performHealthCheck
    heavy,        \* w.memoryUsage is above 50 MB
    state,        \* task.State
    told,         \* how often ProcessTask has returned no error, for each task
    blank         \* how often it has returned no result either

returns == <<told, blank>>
vars == <<wpc, task, breaker, isHealthy, stale, checks, heavy, state, returns>>

Place == {"idle", "admitted", "executing", "adding", "recording"}

Init ==
    /\ wpc = "idle" /\ task = NoTask
    /\ breaker = NewBreaker
    /\ isHealthy = TRUE /\ stale = FALSE /\ checks = 0
    /\ heavy = FALSE     \* memoryUsage is zero
    /\ state = [NewGraphState EXCEPT !.tasks = [t \in TaskID |-> NewTask]]
    /\ told = [t \in TaskID |-> 0] /\ blank = [t \in TaskID |-> 0]

Return == wpc' = "idle" /\ task' = NoTask

\* nil, err: the pool counts a failure and retries.
ReturnError == Return /\ UNCHANGED returns

\* result, nil: the pool counts a completion and passes the result on.
ReturnResult ==
    /\ Return
    /\ told' = [told EXCEPT ![task] = @ + 1]
    /\ UNCHANGED blank

\* nil, nil: the results of ProcessTask are unnamed, so the deferred recover cannot set
\* them.  The pool sees no error: it counts a completion, passes nil on, never retries.
ReturnNothing ==
    /\ Return
    /\ told' = [told EXCEPT ![task] = @ + 1]
    /\ blank' = [blank EXCEPT ![task] = @ + 1]

\* Of the failures only whether they have reached the threshold matters: they are
\* counted up to there.
Failed(cb) ==
    LET failed == RecordFailure(cb) IN
    IF failed.failures > FailureThreshold
       THEN [failed EXCEPT !.failures = FailureThreshold] ELSE failed

-----------------------------------------------------------------------------
(* ProcessTask.                                                            *)

\* CanExecute, which may move the breaker to half-open.  A refusal is an error for
\* the pool but no failure for the breaker.
ProcessTask(t) ==
    /\ wpc = "idle"
    /\ breaker' = Probed(breaker)
    /\ IF Permits(breaker)
          THEN wpc' = "admitted" /\ task' = t /\ UNCHANGED returns
          ELSE ReturnError
    /\ UNCHANGED <<isHealthy, stale, checks, heavy, state>>

StaleStartsCheck ==
    /\ checks' = IF stale THEN checks + 1 ELSE checks
    /\ checks' <= MaxChecks

\* Mutant of CheckHealth: the refusal is recorded as a failure.
CheckHealthFailing ==
    /\ wpc = "admitted"
    /\ StaleStartsCheck
    /\ IF isHealthy
          THEN wpc' = "executing" /\ heavy' \in BOOLEAN /\ UNCHANGED <<task, returns, breaker>>
          ELSE ReturnError /\ breaker' = Failed(breaker) /\ UNCHANGED heavy
    /\ UNCHANGED <<isHealthy, stale, state>>

\* IsHealthy; a healthy worker starts with a new memory reading.
CheckHealth ==
    /\ wpc = "admitted"
    /\ StaleStartsCheck
    /\ IF isHealthy
          THEN wpc' = "executing" /\ heavy' \in BOOLEAN /\ UNCHANGED <<task, returns>>
          ELSE ReturnError /\ UNCHANGED heavy
    /\ UNCHANGED <<breaker, isHealthy, stale, state>>

\* The failure is recorded before ProcessTask returns, and the memory read again.
EndsBadly ==
    /\ wpc = "executing"
    /\ breaker' = Failed(breaker)
    /\ heavy' \in BOOLEAN
    /\ UNCHANGED <<isHealthy, stale, checks, state>>

\* The model fails, the deadline passes, or the state does not know the task.
ResearchFails == EndsBadly /\ ReturnError

\* The model's client panics, before anything is stored.
ResearchPanics == EndsBadly /\ blank[task] < MaxPanics /\ ReturnNothing

ResearchCompletes ==
    /\ wpc = "executing" /\ Len(state.results) < MaxResults
    /\ wpc' = "adding"
    /\ state' = CompleteTask(state, task)
    /\ UNCHANGED <<task, breaker, isHealthy, stale, checks, heavy, returns>>

AddResultToState ==
    /\ wpc = "adding"
    /\ wpc' = "recording"
    /\ state' = AddResult(state, task)
    /\ UNCHANGED <<task, breaker, isHealthy, stale, checks, heavy, returns>>

\* Mutant of Succeed: a heavy worker reports an error for a task it has completed.
SucceedUnlessHeavy ==
    /\ wpc = "recording"
    /\ breaker' = RecordSuccess(breaker)
    /\ heavy' \in BOOLEAN
    /\ IF heavy' THEN ReturnError ELSE ReturnResult
    /\ UNCHANGED <<isHealthy, stale, checks, state>>

Succeed ==
    /\ wpc = "recording"
    /\ breaker' = RecordSuccess(breaker)
    /\ heavy' \in BOOLEAN
    /\ ReturnResult
    /\ UNCHANGED <<isHealthy, stale, checks, state>>

-----------------------------------------------------------------------------
(* The health check and its other caller.                                  *)

PerformHealthCheck ==
    /\ checks > 0
    /\ checks' = checks - 1
    /\ stale' = FALSE
    /\ isHealthy' = (breaker.state # "open" /\ ~heavy)
    /\ UNCHANGED <<wpc, task, breaker, heavy, state, returns>>

\* GetStats asks IsHealthy as well.
GetStats ==
    /\ stale /\ StaleStartsCheck
    /\ UNCHANGED <<wpc, task, breaker, isHealthy, stale, heavy, state, returns>>

\* Thirty seconds since the last check.
CheckGetsStale ==
    /\ ~stale /\ stale' = TRUE
    /\ UNCHANGED <<wpc, task, breaker, isHealthy, checks, heavy, state, returns>>

\* The breaker's openStateDuration since its last failure.
BreakerCools ==
    /\ ~breaker.cooled /\ breaker' = [breaker EXCEPT !.cooled = TRUE]
    /\ UNCHANGED <<wpc, task, isHealthy, stale, checks, heavy, state, returns>>

-----------------------------------------------------------------------------
GetsTask == \E t \in TaskID : ProcessTask(t)

TaskStep ==
    \/ CheckHealth \/ ResearchFails \/ ResearchPanics
    \/ ResearchCompletes \/ AddResultToState \/ Succeed

Next ==
    \/ GetsTask \/ TaskStep \/ PerformHealthCheck \/ GetStats \/ CheckGetsStale \/ BreakerCools

\* Time passes, goroutines run, research ends at its deadline, and the pool keeps the
\* worker supplied.
Fairness ==
    /\ WF_vars(GetsTask) /\ WF_vars(TaskStep) /\ WF_vars(PerformHealthCheck)
    /\ WF_vars(CheckGetsStale) /\ WF_vars(BreakerCools)

Spec == Init /\ [][Next]_vars /\ Fairness

-----------------------------------------------------------------------------
(* Properties.                                                             *)

\* Types, and as many results as the worker may complete.
TypeOK ==
    /\ wpc \in Place /\ task \in TaskID \cup {NoTask}
    /\ breaker \in Breaker
    /\ isHealthy \in BOOLEAN /\ stale \in BOOLEAN /\ heavy \in BOOLEAN
    /\ checks \in 0..MaxChecks
    /\ IsGraphState(state) /\ Len(state.results) <= MaxResults
    /\ told \in [TaskID -> Nat] /\ blank \in [TaskID -> Nat]

Pending(place, t) == IF wpc = place /\ task = t THEN 1 ELSE 0

\* What the pool is told and what the state holds agree, task by task, whichever way
\* ProcessTask ends.  A stored finding is told as a result exactly once, so the pool
\* does not retry a task that is done; an error is told only where nothing was stored;
\* and the completions the pool counts beyond the stored findings are the recovered
\* panics, no more and no fewer.  The task's own list is ahead of the state's by the
\* one result being added.
ToldAsStored ==
    \A t \in TaskID :
        /\ told[t] + Pending("recording", t) = ResultsFor(state, t) + blank[t]
        /\ state.tasks[t].results = ResultsFor(state, t) + Pending("adding", t)

\* A worker judged unhealthy for its open breaker comes back: the refused tasks let
\* the cooled breaker half-open and start the check that sees it.  Only the memory
\* reading may keep it out, for a worker that runs nothing takes no new one.
UnhealthyRecovers == ~isHealthy ~> (isHealthy \/ heavy)
=============================================================================
