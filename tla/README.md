# A TLA+ model of open-research-agent

Open Research Agent is a Go program that answers a research query with the help of a
local language model: it plans research tasks, distributes them over a pool of
workers, collects the results and writes a report. The risk of the program lies in
its concurrency: worker goroutines, retry goroutines, health monitors, timeouts and
shutdown share channels, atomic counters and circuit breakers. That is what these
modules model, check with TLC and, where a property matters for every configuration,
prove with TLAPS.

Paths are relative to `src/`; `wf/` stands for `pkg/workflow/`.

## The system

| Component | State | Operations | Meets |
|---|---|---|---|
| WorkerPool `wf/worker_pool.go` | running flag, context, `taskQueue`, `resultCh`, `errorCh`, six counters, wait group | Start, Stop, Submit, runWorker with retries, WaitForCompletion | submitters, health monitor, readers of results |
| HealthMonitor `wf/health_monitor.go` | ticker, stop channel | checkHealth, restartWorkers | the pool's counters and lock |
| Worker `wf/worker.go` | breaker, health flag, memory reading | ProcessTask, IsHealthy, performHealthCheck | WorkerPool, GraphState |
| CircuitBreaker `wf/circuit_breaker.go` | state, failures, successes, last failure | RecordSuccess, RecordFailure, CanExecute | its worker, health checks, statistics |
| WorkerHealthManager, TaskProcessor `wf/worker_health.go`, `wf/task_processor.go` | breaker, verdict of the last check, memory, failures in a row | ProcessTask, PerformHealthCheck, IsHealthy | the worker's loop, its health ticker, statistics |
| ResearcherPool, ResearcherWorker, PoolTaskTracker `wf/researcher_*.go`, `wf/pool_*.go` | task queue, worker and consumer result channels, active tasks, counters | Start, Stop, SubmitTask, forwardResults, tracking | consumers |
| Supervisor `wf/supervisor.go` | task history, progress monitor, loads per worker | DistributeTasks, HandleTaskCompletion, RebalanceTasks, AdaptStrategy | WorkerPool, ResearchGraph |
| ResearchGraph `wf/graph.go` | phase and iteration of one request | Execute and its nodes | Supervisor, WorkerPool, GraphState |
| GraphState, MemoryStore, FileStore `pkg/state/` | tasks, results, phase, metadata; saved states | updates, snapshots, Save, Load, Update, List | everybody |
| ResourceLimiter, MetricsCollector, tool registry | small counters and maps under a lock | allocate, collect, register | nobody, telemetry, executor |
| ResearchExecutor, LLM client, observability, configuration, command line | none that control flow depends on | | |

Components interact in three ways. **Channels**: submitters, retry goroutines and
workers meet in `taskQueue`; workers and readers in `resultCh` and `errorCh`; Stop
closes all three. **Shared counters**: every step of a task moves it from one atomic
counter to the next, and `WaitForCompletion`, the health monitor and the metrics
collector read them. **Locks held across calls**: `Stop` holds the pool's lock while
it waits for the workers, the supervisor holds its lock while it submits.

What makes each component correct, and what is hard about it:

* WorkerPool: a task is in exactly one place and is not lost; the counters account
  for every task; Stop ends the workers and nobody sends on a closed channel. Hard:
  `running` is read without the lock, counters are updated before or after the event
  they count, retries come back as new submissions, Stop has a timeout.
* HealthMonitor: it restarts workers only when workers have died. Hard: it checks
  under one lock and acts under another, later.
* CircuitBreaker, WorkerHealthManager, TaskProcessor: a worker whose tasks keep
  failing pauses and later recovers. Hard: asking the breaker changes it, and so do
  the health check and the statistics; two failure counters are updated one by one.
* ResearcherPool: its counters account for every submission and every start, a result
  handed over reaches its consumer, and Stop ends the goroutines without a send on a
  closed channel. That a failed task leaves the set of active tasks is what its comments
  promise and what the code does not do (see below). Hard: Stop closes four channels in
  an order of its own, two of them under goroutines that may still send.
* Supervisor: its history and its progress monitor tell the same story and no load is
  below the work it stands for. Hard: a task is tracked again at every distribution and
  every move, and reports come back in between.
* ResearchGraph: it ends, with a report that contains the findings. Hard: with a pool
  the graph hands out tasks and goes on at once, while workers write to the state it
  reads, hands the same task out again in the next iteration, and returns after a Stop
  that may give up waiting.
* Worker: what it tells the pool and what it stores in the state are the same; an
  unhealthy worker comes back. Hard: the verdict is made later, by another goroutine,
  from readings that may be old.
* GraphState: the two records of a finding, its task's and the state's, belong together.

## The modules

| Module | What it is |
|---|---|
| `CircuitBreaker` | the breaker as a value and its methods as functions |
| `WorkerHealth` | one researcher worker: TaskProcessor, WorkerHealthManager, health ticker, observers |
| `WorkerPool` | the worker pool and the restart loop of the health monitor |
| `TaskLedger` | what a task pool promises, abstractly; `WorkerPool!KeepsLedger` is the refinement |
| `WorkerPoolWait` | the pool with a client in WaitForCompletion |
| `Worker` | one worker of the pool: ProcessTask, breaker, delayed health checks, writes to the state |
| `GraphState` | the research state as a value and its methods as functions |
| `ResearchGraph` | one Execute, with and without a pool, and what the pool's workers do to its state |
| `Distributors` | the prioritizer and the three distributors as functions to sets of outcomes |
| `Supervisor` | the supervisor with its history and progress monitor |
| `ResearcherPool` | the researcher pool: workers, forwarder, task tracker, counters, Stop |
| `MCWorkerPool`, `MCWorker`, `MCResearchGraph`, `MCSupervisor`, `MCResearcherPool` | instances for TLC |
| `WorkerPoolProofs` | types, one holder per task, the pool implements TaskLedger |
| `WorkerPoolMetricsProofs` | counters, dropped results, the first life of a pool |
| `WorkerHealthProofs` | breaker, counters and lockout |
| `GraphStateProofs` | lemmas: what each method of the state does |
| `WorkerProofs` | types, and what the pool is told |
| `ResearchGraphProofs` | all safety properties of a run |
| `ResearcherPoolProofs` | all safety properties of the researcher pool |
| `SupervisorProofs` | folds and sums, the three distributors, all properties of the supervisor |

`Worker` extends `GraphState` and `CircuitBreaker`, `ResearchGraph` extends
`GraphState`, `Supervisor` extends `Distributors`, `WorkerHealth` extends
`CircuitBreaker`, `WorkerPool` instantiates `TaskLedger`. Each of `ResearchGraph` and
`Supervisor` has in it, as its environment, as much of the pool as it can see: the
graph the copies of its tasks in queue, retry and workers, the supervisor the accepted
runs not reported yet. Of ProcessTask, `WorkerPool` keeps the two outcomes it can tell
apart: no error, or an error. `Worker` tells three apart, because a recovered panic
returns neither a result nor an error.

### WorkerPool

A *job* is one call of Submit by a client with the chain of retries that follows it.
`sub[j]` says where the current Submit call of the chain is ("checked": `running` was
read; "sending": counted and in the select), or where the job is afterwards ("accepted":
Submit returned nil; "backoff": a retry goroutine sleeps). `wpc[w]` is the place of a
`runWorker` goroutine between two operations others can see, `wjob[w]` the task it
holds. `stop` is the place of Stop; Start, the health monitor and Stop exclude each
other because they hold `p.mu`, Submit and the workers do not. Start and a restart begin
their workers one by one (`spawner`, `births`) and count each one after it was started
(`uncounted`): in a second life, whose context is cancelled, a worker may have left, and
be uncounted, before that. `metrics` and `out` are the counters and the two output
channels, `hmDue[g]` what the monitor of the g-th Start has decided to restart and not
restarted yet. A send on a closed channel, or a second close, ends the process:
`panicked` is set and no action is enabled any more.

One action is one operation other goroutines can observe. Adjacent operations are one
action only when at most one of them touches what the pool acts on: `tasksQueued` goes
with `queueDepth` in Submit and in its rollback, `tasksCompleted` and `tasksFailed` with
the send or retry that follows. Those three counters are read only by summaries, which
load one counter after the other and so never see a consistent row; *MetricsConserved*
is about the row as it stands between two such actions. What a worker does inside
`ProcessTask` is its outcome: no error or an error. After a recovered panic ProcessTask
returns nil, nil, which the pool takes for a success. A parked sender is woken in Go by
the receive that makes room; the model takes two steps for that, so another submitter
may get the room first. Submit gives up whenever its select may: after five seconds on a
full queue, or because a context is done, also with room in the queue. Stop's thirty
seconds may pass at any time.

### WorkerHealth and CircuitBreaker

`pc` is the worker's place in ProcessTask. The two halves of RecordSuccess and
RecordFailure (the breaker, then `consecutiveFails`) are separate steps; the health
check and the readers of statistics come in between. Time is three events: the open
period of the breaker ends, the last check becomes older than two intervals, a memory
reading is above or below the limit.

### Worker

`wpc` is the place in ProcessTask: admitted by the breaker, executing, then between the
two writes to the state ("adding"), then before RecordSuccess ("recording"). IsHealthy
answers from the stored verdict and, when that is stale, starts a goroutine: `checks`
counts those that have not run. The verdict reads the breaker and `heavy`, the memory
reading that only a running task takes; a worker over the limit therefore stays
unhealthy. Failures are counted up to the threshold, beyond which the worker's breaker
tells nothing apart. ProcessTask returns in three ways: an error (the pool retries), a
result, or, after a recovered panic, neither (the pool counts a completion, passes nil
on and never retries). For each task `told` counts the returns without an error, `blank`
those of them without a result.

### GraphState and ResearchGraph

Every method of GraphState runs under its lock, so a call is one step. A task's own
results are counted, the state's results are a sequence of task IDs: enough to compare
the two. `gpc` is the node Execute is in; a node that looks at the state, calls
something and looks again is two steps (`SupervisorNode`, `DistributeNode`,
`SubmitNode`). Every call of the model may fail; in `ClarifyNode` only the length of the
query matters, as in the code. `queued`, `backoff`, `sending`, `wtask` are the copies of
tasks in the pool. A retry wakes from its backoff, passes Submit's check of running
(`RetryWakes`) and only then sends: the queue may have room, Submit's five seconds may
be over, or the deferred Stop has closed the queue and the process dies (`RetryPanics`).
A worker that meets the closed resultCh after Stop's timeout kills the process too
(`WorkerPanics`). After `crashed` nothing happens any more. `extractReport` reads
`state.Results` without the lock: beside a worker that is appending, the slice header
may be torn, modelled as the value `Torn` in the place of a finding.

`cmd/ora/main.go:177` builds the graph without a pool; the graph with a pool is built
only by its tests. `pooled` chooses between them in Init, so both are checked by one
run and proved by one proof. A second Execute on the same pooled graph is not
modelled; a second life of the pool is in `MCWorkerPool`.

### Distributors and Supervisor

A distributor is a value; Distribute returns the set of outcomes the code can produce,
because `sort.Slice` is not stable and maps are ranged over in any order. All methods
of the supervisor hold `s.mu` for their whole length, so each is one action, including
TrackTask and Submit for every assignment. `inPool` counts the runs the pool accepted
and has not reported. A run is an accepted Submit with all its retries: what the pool
submits again by itself (`wf/worker_pool.go:347`) is no run of its own.
HandleTaskCompletion is called only by tests; the model assumes that each run is
reported at most once. `LoadsCoverWork` rests on that assumption.

DistributeTasks reads `pool.workers` without the pool's lock while the health monitor
appends to it. The model has the append as one step, so the distributor meets workers
it has no load for; the data race itself, a slice header read half-way, is not modelled.

What the model makes visible and no comment denies: a worker's load in the
load-balanced distributor never decreases; a rebalanced task keeps counting at its old
worker; AdaptStrategy makes a new round-robin distributor, which starts from its
beginning, at every call; its cost-based branch is out of reach, because it asks for
tasks in progress and nobody reports any.

### ResearcherPool

A submission is one call of SubmitTask; two submissions may carry the same task ID,
which is all the tracker has. `wpc` is a worker's place between receiving a task and its
last send, `fpc` the forwarder's. The tracker holds a lock while it moves a task from
one counter to the next; GetSnapshot reads the counters without it, so each of its two
methods is two steps (`RegisterTaskStart` and `CountProcessing`, `TrackTaskCompletion`
and `CountCompleted`) that no other call of the tracker can part. Stop closes four
channels in an order of its own (`stop`): the queue, the workers' shutdown, the workers'
results (while they may still be sending: the panic is recovered, the result is
discarded), and after the wait the other two. The comment at `wf/researcher_pool.go:191`
says a cancelled context ends the forwarder; the forwarder watches the context given to
Start, which Stop does not cancel, and ends because its channel is closed.
TrackTaskError is handed to every worker and never called: a failed task stays active
and processing for good.

## What is checked

| Run | Instance | Result |
|---|---|---|
| `MCWorkerPool` | 2 jobs, 3 calls of Submit, 2 lives, 2 workers, queue 1 | 478,175 states: all eleven properties hold |
| `WorkerHealth` | thresholds of the code, up to 12 failures | 4,654 states: all seven properties hold |
| `MCSupervisor` | 3 tasks, 2 workers and 1 more later, 2 distributions, 1 rebalancing | 69,247 states: all six properties hold |
| `MCResearcherPool` | 2 submissions with one task ID, 2 workers, channels of 1 | 43,432 states: all six properties hold |
| `MCResearchGraph` | 1 task, 3 iterations, no pool or 2 workers | 8,230 states: all six properties hold |
| `MCWorker` | 2 tasks, thresholds 2 and 2, 2 checks on their way, 3 results, 1 panic per task | 41,985 states: all three properties hold |
| `MCWorkerPoolRetry` | 1 job | RetriesBounded is violated |
| `MCWorkerPoolPanic` | 1 job, 1 worker | NeverPanics is violated |
| `MCWorkerPoolWait` | 1 job, 2 workers | WaitMeansComplete is violated |
| `WorkerHealthLockout` | thresholds of the code | HalfOpenAdmits is violated |
| `MCResearcherPoolErrors` | as MCResearcherPool | FailureLeavesProcessing is violated |
| `MCResearcherPoolShutdown` | as MCResearcherPool | ShutdownIsGraceful is violated |

**The pool.** *OneHolder* and *AcceptedIsHeld*: a task is in the queue, with one worker
or with its retry goroutine, never in two places, and an accepted task is in one of
the first two. *GaugesExact*: queueDepth and tasksProcessing equal the numbers of tasks
they stand for; activeWorkers equals the workers in their loop, less the one that was
started and is still to be counted. The restarted workers of a second life leave at
once, so a reader without the lock (the metrics) may see -1 there; under the lock, where
checkHealth reads it, the gauge is exact. *MetricsConserved*: tasksQueued is the
sum of all the places an attempt can be in. *DropsOnlyOnOverflow*: a result is dropped
only after more completions than resultCh can hold. *FirstLifeNeedsNoRestart*: until a
pool is stopped the monitor finds nothing to restart. *GracefulStop*: without its
timeout, the first Stop closes the output channels after the last worker has left.
*QueuedTaskIsServed*, *WorkersLeave*: progress while running and at shutdown.
*KeepsLedger*: every step of the pool is a step of TaskLedger (accept, begin in order,
end) or leaves it alone, with the queue as what waits, the workers' tasks as what runs
and the completed and finally failed ones as what is over.

**A worker's health.** *BreakerCoherent*: closed means fewer failures than the
threshold, trial successes are counted only while half-open. *CountersAgree*: the two
failure counters agree between tasks; within a task, between the two updates, they do
not, and observers can see that. *NeverRunsOpen*: no task runs on an open breaker.
*ClosesAfterTrials*: closing takes all trial successes in a row. *OpenIsTemporary*: an
open breaker is asked again in the end. *LockoutIsForever*: the code's own behaviour
behind the finding below, that a worker with more than five failures in a row never
runs a task again.

**A worker of the pool.** *ToldAsStored*: task by task, the completions the pool is
told of are the findings the state holds plus the recovered panics, so no stored finding
is reported as an error (and retried), and a completion without a finding is always a
recovered panic. That is the whole extent of what the unnamed results of ProcessTask
break (`wf/worker.go:90`): nothing is stored, and the pool counts a success. In between
the task's own list is ahead by one. *UnhealthyRecovers*: a worker judged unhealthy is judged healthy again,
unless the memory reading keeps it out.

**The graph.** *RecordsAgree*: a finding is in its task and in the state's results, or a
worker stands between the two calls; only completed tasks have findings.
*DuplicatesBounded*: a task is handed out again in every iteration until some copy is
done, so its findings and its copies on their way are at most as many as iterations.
*ReportComplete*: the report misses a planned task only when the iterations ran out or
a worker has marked the task as completed and not yet added its finding; of a pooled run
whose iterations ran out it says nothing, and it does not forbid a torn finding beside.
*QuietAfterReturn*: once Execute has returned, the state changes no more, unless its
Stop gave up waiting. *ExecuteEnds*: Execute settles on a report or an error whatever
the workers do, and returns, unless the process dies of a channel the deferred Stop has
closed under a retry or under a worker.

**The supervisor.** *BooksAgree*: history and progress monitor hold the same tasks, at
the same worker, with the same status. *LoadsCoverWork*: the loads together are never
below the runs the pool owes. *MinLoadExactUnlessIdle*: RebalanceTasks uses 0 both for
an idle worker and for "none seen yet"; the least load it finds is right for every
order of the map as long as no worker is idle. *CostBasedFillsUp*: a task is left out
only when every worker has its capacity. *DistributionLevels*: no load-balanced
distribution widens the gap between two workers by more than one task, also after
workers were added.

**The researcher pool.** *QueuedGaugeExact*: tasksQueued is exact although submitter and
worker count at different times. *StartsConserved*: every start is in tasksProcessing or
tasksCompleted, but for the completion the forwarder has taken out of the one and not
yet put into the other. *SentResultSurvives*: a result that was handed over reaches the
consumers' channel through Stop. *GracefulStop*: a worker or the forwarder meets a
closed channel unrecovered only after Stop's timeout. *StopEndsAll*: as long as the
process lives, the workers end after Stop even when nobody reads; the forwarder ends
when consumers go on reading, and has no other way out than the panic below when they
do not.

**Where the code and its comments disagree.**

* The retry goroutine calls Submit, which starts a new WorkerTask with no retries: a
  failing task is retried every two seconds for ever and `errorCh` stays empty
  (`wf/worker_pool.go:252`; comments 344, 359).
* Stop can close the queue between Submit's check and its send: the process panics
  (`wf/worker_pool.go:261`; comment 182).
* WaitForCompletion returns while a task is between two counters or waits for its
  retry (`wf/worker_pool.go:426`; comment 415).
* Five failures open the breaker, a failed trial makes six in a row, and more than
  five in a row refuse every task: the half-open breaker admits nothing
  (`wf/worker_health.go:66`; comment `wf/circuit_breaker.go:17`).
* The researcher pool hands every worker TrackTaskError as the callback for failed
  tasks, and nothing calls it: a failed task is active and processing for ever, and
  tasksFailed stays 0 (`wf/researcher_worker.go:78`; comments
  `wf/pool_task_tracker.go:105`, `wf/researcher_pool.go:143`).
* Stop of the researcher pool closes the consumers' channel after its timeout under a
  forwarder that is parked there because nobody reads: the process panics
  (`wf/researcher_pool.go:212`; comment 169).

The second of these is in the researcher pool as well, whose SubmitTask and Stop are
written the same way (`SubmitPanic`; `wf/researcher_pool.go:258`); it is not shown by a
run of its own.

### Bounds

`MaxSubmits` (calls of Submit, the retries' included) and `MaxStarts` bound the pool,
`FailCap` the failures a worker records, `MaxResults`, `MaxChecks` and `MaxPanics` the
worker; everything else is finite by itself. `Worker` is the set of goroutines alive at
one time: an identity whose goroutine has ended is used again. Two jobs, two workers and
one slot give a full queue with a parked submitter, an overflowing output channel, two
workers at every pair of places, a retry, both timeouts and Stop in every position. Three
calls of Submit are both jobs and one retry; the retry count is 0 in each attempt, so a
further retry adds nothing but RetriesBounded, whose run allows six calls. A second Start
is where contexts and channels are stale, and workers are born to leave at once. Twelve
failures cover opening (5), failed trials, the lockout (6) and several rounds after it.

In `MCSupervisor` the capacity of a worker and the imbalance threshold are 1 instead of
the code's 3, so that three tasks meet both limits; the index of the round robin has
its full 32 bits, which no run can use up. Two distributions are enough for a task to
be tracked twice, once before and once after a worker was added, with a move and
reports in between. In `MCResearcherPool` one slot per channel lets every send find a
full channel, and two submissions with one ID let the tracker confuse them.
`MCResearchGraph` plans one task, as `parseTasksFromResponse` does; with three
iterations and two workers, copies of it are queued, running, adding and retried at
the same time; the proofs are for any number of tasks. In `MCWorker` both
thresholds are 2, the least values at which one failure or success is not enough; two
checks may be on their way, so an old verdict may follow a new one. The proofs have no
bounds other than these parameters, which stay arbitrary.

`CHECK_DEADLOCK FALSE` is in the configurations of components that may stop for good:
all jobs done and Stop over, a panic, Execute returned, or a bound used up.
`WorkerHealth` never stops.

### Fairness

Pool: each runWorker goroutine and each Stop that has started goes on (the Go scheduler;
ProcessTask ends because its context has the deadline WorkerTimeout and the LLM client
uses that context). Nobody has to submit, to stop, to read results, no Submit or Start
has to go on, and the health monitor need not tick. Health: the ticker of
StartHealthMonitoring fires and time passes; no task needs to be submitted and none
needs to succeed.

Researcher pool: each worker, the forwarder and a Stop that has begun go on; nobody has
to submit, to read or to cancel, and research ends (its context has a deadline).
Graph: only Execute's own goroutine is relied on; nothing is assumed of the workers.
Worker: the pool keeps supplying tasks, time passes, and the goroutines of started
health checks run; no research needs to succeed. The supervisor has no liveness
property and no fairness.

## What is proved

Every safety property a run checks is a theorem. All theorems hold for every set of
jobs and workers, every configuration and all thresholds, from the assumptions
`PoolAssumption`, `BreakerAssumption`, `HealthAssumption`, `GraphStateAssumption`,
`WorkerAssumption`, `ResearchGraphAssumption`, `ResearcherPoolAssumption`,
`DistributorAssumption` and `SupervisorAssumption`: finite sets of jobs, tasks and
workers, positive sizes and thresholds, at least one worker to start with, and
priorities of the graph's tasks that are not negative.

* `TypeCorrect`: TypeOK of the pool. Inductive with *HoldsTyped* (a worker holds a task
  in exactly the places that use one).
* `TasksHaveOneHolder`: OneHolder and AcceptedIsHeld are inductive together given the
  types; the queue's positions are followed through Append and Tail.
* `CountersCorrect`: the invariant *CountersExact* restates GaugesExact and
  MetricsConserved as equations between named counters and counts of places. A lemma
  on cardinalities says what moving one element from place to place adds to a count, a
  table lists it for every move of a worker, and each action changes counter and count
  by the same amount. The worker that is started and not yet counted is a term of the
  equation for activeWorkers; that there is none while the lock is free is inductive too.
* `AcceptedNeverLost`, `MetricsAddUp`: the second halves of the two above on their own.
* `DropsNeedOverflow`: resultCh never holds more results than tasks have completed.
* `FirstLifeStable`, `FirstStopIsGraceful`: the invariant *LifeInv* follows a pool from
  before its first Start to the end of its first Stop. The exact gauge is what shows
  that the monitor sees MaxWorkers; an empty wait group stays empty because nothing
  is born once running is false.
* `HealthTyped`, `BreakerAlwaysCoherent`, `CountersAlwaysAgree`, `NeverOnOpenBreaker`:
  from one invariant *HealthInv*, which says at each place of ProcessTask what breaker
  and counter are to each other between the two halves of an update.
  `ClosingTakesTrials` and `LockoutForever` are action properties from the same
  invariant.
* `PoolKeepsLedger`: under the refinement mapping, Init maps to Init, SubmitSend to
  Accept, Receive to Begin, completion and failure to End, and every other action
  leaves the ledger alone. OneHolder is what makes a received task new to the running
  ones; a worker in its select holds nothing, which leaves room to begin.
* `GraphTyped`, `ReturnIsQuiet`: the invariant *Shape* says at each node of Execute what
  is planned, who may act and whether there is a pool; after a Stop that has waited
  all workers have exited. The limit on iterations is part of the types.
* `RecordsAlwaysAgree`: inductive given Shape, by counting the workers between the two
  writes; lemmas of `GraphStateProofs` say what each method does to a count of results.
* `CopiesBounded`: the invariant *CopiesCounted* bounds findings and copies by the
  iterations so far, with one more while the graph itself works on a task.
* `ReportHasAll`: the invariant *Statuses* says that failed tasks exist only after the
  end, that the loop ended for a reason that remains, and, without a pool, that every
  iteration completed a task; for that a highest priority must exist among the pending
  ones, which is shown with the well-foundedness of inclusion on finite sets.

* `WorkerTyped`, `AlwaysToldAsStored`: the invariant *WorkerInv* says at each place of
  ProcessTask which task the worker has and what the breaker and the state are to each
  other, and for each task how `told` and `blank` add up; the lemmas of `GraphStateProofs` say what each call writes.
* `PoolTyped`: TypeOK of the researcher pool, with *Shape*: worker and forwarder have a
  submission in exactly the places that use one. `SubmissionsHaveOnePlace` is the
  invariant the counts rest on: an accepted submission is in the queue once or with one
  worker, although submissions may share a task ID. `StopIsGraceful` follows *StopOrder*,
  the order in which Stop closes its channels. `SentResultsSurvive` follows a result from
  the workers' channel through the forwarder. `QueuedAlwaysExact` and
  `StartedAlwaysCounted` (StartsConserved) count places, one lemma per move of a
  submission, with the forwarder between its two counters as one place more.
* `SupervisorTyped`: TypeOK of the supervisor. What its actions write are folds, over a
  batch, its workers or the tasks to move, so the proof is about those first; see below.
* `BooksAlwaysAgree`: inductive given the types, action by action.
* `LoadsAlwaysCoverWork`: inductive given the types. A batch adds one load per task given
  away and at most as many runs; a report takes one run and at most one load; a move
  adds loads only. `SumCompare` says what a change of some terms does to a sum.
* `CostBasedAlwaysFillsUp`: a consequence of the types and of what the walk over the
  sorted pairs keeps: no worker is beyond its capacity, and after i tasks either i have
  been given away or no pair fits. `CostBasedOutcome` also says that there always is an
  outcome.
* `MinLoadAlwaysExactUnlessIdle`: over positive loads the fold holds the least of those
  seen so far, after the first.
* `DistributionAlwaysLevels`: giving a task to the least loaded worker keeps every bound
  of at least one on the differences of loads, so the whole batch does; *Gap* is the
  least such bound.
* `RoundRobinTakesTurns`, `RoundRobinPanicsAtWrap`: about the operator, for a distributor
  value and any batch; no run reaches 2^31 assignments. `RoundRobinRun` gives the states
  the batch goes through; `CountInduction` carries the index and the turns along them in
  the one, the first task's lack of a worker in the other. The second needs that the
  number of workers does not divide 2^31: with 1, 2, 4, ... workers the remainder is 0 and
  the wrap goes unnoticed at that task.

Folds. `FoldLeft` and `SumFunction` of the community modules are recursive functions on
the subsets of a finite set, and the induction theorems of the library take operators
as parameters, which these provers cannot instantiate. `SubsetInduction` and
`CountInduction` state induction for a *set* of good subsets or numbers instead, from
the well-foundedness of strict inclusion. From them follow that such a recursion has a
solution (`RecursionOnSubsets`) and that a fold over a sequence is the last of a run of
its steps (`FoldRun`). Each fold of the model is shown to be such a run once, and what it
preserves by `CountInduction`. This needs the step of the fold to be known: there is no
lemma about an arbitrary fold.

Only model-checked: the liveness properties (QueuedTaskIsServed, WorkersLeave,
OpenIsTemporary, UnhealthyRecovers, ExecuteEnds, StopEndsAll), since liveness under
fairness is out of the prover's reach, and the six violations.

## What is not modelled, and the plan

* Nothing outside the tests calls it: the resource limiter, `MemoryStore` and
  `FileStore` (the latter a placeholder) with the snapshots, TrackTaskError (wired, never
  called), Reset of the health manager. `GetMetrics` of the pool returns zeros.
* It only reads or reports: the metrics collector, GetStats, MonitorProgress.
* I/O without control flow of its own: the LLM client and its stream, prompts, report
  text, observability, configuration, the command line, test utilities. What a call of
  the model or of a tool yields is an input of every module that makes one. The tool
  registry is a map filled once at startup.
* In a modelled component: a second Start of the researcher pool (all its channels are
  closed by then), the graph's fallback without a supervisor (the constructors make
  supervisor and pool or neither).

Left for later: what `TaskLedger` itself implies, as theorems about the abstract ledger
(a task waits once, never while it runs, and is over for good), which `PoolKeepsLedger`
then carries over to the pool.
