----------------------------- MODULE WorkerPool -----------------------------
(***************************************************************************)
(* The worker pool of src/pkg/workflow/worker_pool.go together with the    *)
(* restart loop of health_monitor.go: a bounded task queue shared by       *)
(* MaxWorkers goroutines, submitters that count a task before they try to  *)
(* send it, a retry goroutine per failed attempt, two bounded output       *)
(* channels that drop what does not fit, and Stop, which closes every      *)
(* channel while submitters and (after its timeout) workers may still      *)
(* send on them.                                                           *)
(*                                                                         *)
(* One step is one operation other goroutines can see: an atomic counter,  *)
(* a channel operation, a close.  What a worker does with a task inside    *)
(* Worker.ProcessTask is its outcome here.                                 *)
(*                                                                         *)
(* A Job is one call of Submit by a client and the chain of retries that   *)
(* follows it; submitting the same ResearchTask twice is two jobs.         *)
(***************************************************************************)
EXTENDS Integers, Sequences, FiniteSets
LOCAL INSTANCE Functions

CONSTANTS
    Job,          \* client calls of Submit
    Worker,       \* bound: goroutines of runWorker alive at one time
    NoJob,        \* a worker without a task
    MaxWorkers,   \* WorkerPoolConfig.MaxWorkers
    QueueSize,    \* WorkerPoolConfig.QueueSize, capacity of all three channels
    MaxRetries,   \* the literal 3 of "task.Retries < 3"
    MaxStarts,    \* bound: calls of Start
    MaxSubmits    \* bound: calls of Submit, the retries' included

ASSUME PoolAssumption ==
    /\ IsFiniteSet(Job)
    /\ IsFiniteSet(Worker)
    /\ NoJob \notin Job
    /\ {MaxWorkers, QueueSize, MaxRetries, MaxStarts, MaxSubmits} \subseteq Nat \ {0}

VARIABLES
    running,      \* p.running
    starts,       \* how often Start has succeeded
    stop,         \* where Stop is; it holds p.mu whenever this is not "idle"
    spawner,      \* who starts workers; it holds p.mu whenever this is not "nobody"
    births,       \* goroutines the spawner has still to start
    uncounted,    \* it stands between a "go runWorker" and its activeWorkers.Add(1)
    timedOut,     \* some Stop gave up waiting for the workers
    ctxDone,      \* p.cancel() has been called
    queueClosed,  \* close(p.taskQueue) has been called
    taskQueue,    \* the buffered WorkerTasks, by job
    sub,          \* where the current Submit call of each job's chain is
    retries,      \* WorkerTask.Retries of each job's current WorkerTask
    attempts,     \* Submit calls made so far for each job
    wpc,          \* where each runWorker goroutine is
    wjob,         \* the task it holds
    metrics,      \* p.metrics
    out,          \* p.resultCh and p.errorCh: how much each holds, and if it is closed
    dropped,      \* some result did not fit into resultCh
    hmDue,        \* workers the monitor of each Start has decided to restart
    panicked      \* which goroutine's panic ended the process

spawnVars  == <<spawner, births, uncounted>>
stopVars   == <<stop, timedOut, ctxDone, queueClosed>>
lifeVars   == <<running, starts, stopVars, spawnVars>>
jobVars    == <<sub, retries, attempts>>
workerVars == <<wpc, wjob>>
outVars    == <<out, dropped>>

vars == <<lifeVars, taskQueue, jobVars, workerVars, metrics, outVars, hmDue, panicked>>

-----------------------------------------------------------------------------
(* Names for the places a job, a worker and a call can be in.              *)

SubState  == {"idle", "checked", "sending", "accepted", "backoff",
              "rejected", "completed", "failed"}
Counting  == "counting"     \* queueDepth is decremented, tasksProcessing not yet incremented
HoldsTask == {"received", Counting, "processing", "succeeded", "failed"}
WorkState == {"unborn", "select", "leaving"} \cup HoldsTask
StopState == {"idle", "cancel", "closeQueue", "wait", "closeResults", "closeErrors"}
Spawner   == {"nobody", "start", "restart"}
Channel   == {"resultCh", "errorCh"}

OutputChannel == [held : Nat, closed : BOOLEAN]

WorkerPoolMetrics ==
    [tasksQueued : Int, queueDepth : Int, tasksProcessing : Int,
     tasksCompleted : Int, tasksFailed : Int, activeWorkers : Int]

At(state)      == {w \in Worker : wpc[w] \in state}
Unborn         == At({"unborn"})
Active         == At({"select"} \cup HoldsTask)   \* what activeWorkers counts
InWaitGroup    == At({"select", "leaving"} \cup HoldsTask)
Sending        == {j \in Job : sub[j] = "sending"}
InQueue(j)     == \E i \in 1..Len(taskQueue) : taskQueue[i] = j

Up == panicked = "no"     \* a panic in any goroutine ends the process

LockFree == stop = "idle" /\ spawner = "nobody"     \* p.mu

-----------------------------------------------------------------------------
Init ==
    /\ running = FALSE /\ starts = 0 /\ stop = "idle" /\ timedOut = FALSE
    /\ spawner = "nobody" /\ births = 0 /\ uncounted = FALSE
    /\ ctxDone = FALSE /\ queueClosed = FALSE
    /\ taskQueue = <<>>
    /\ sub = [j \in Job |-> "idle"]
    /\ retries = [j \in Job |-> 0]
    /\ attempts = [j \in Job |-> 0]
    /\ wpc = [w \in Worker |-> "unborn"]
    /\ wjob = [w \in Worker |-> NoJob]
    /\ metrics = [tasksQueued |-> 0, queueDepth |-> 0, tasksProcessing |-> 0,
                  tasksCompleted |-> 0, tasksFailed |-> 0, activeWorkers |-> 0]
    /\ out = [c \in Channel |-> [held |-> 0, closed |-> FALSE]]
    /\ dropped = FALSE
    /\ hmDue = [g \in 1..MaxStarts |-> 0]
    /\ panicked = "no"

Panic(who) ==
    /\ panicked' = who
    /\ UNCHANGED <<lifeVars, taskQueue, jobVars, workerVars, metrics, outVars,
                   hmDue>>

-----------------------------------------------------------------------------
(* Start and the health monitor's restart.  Each holds p.mu while it       *)
(* starts workers one by one and counts each only after it was started, so *)
(* a worker may work, and leave, before it is counted.                     *)

Start ==
    /\ Up /\ LockFree /\ ~running
    /\ starts < MaxStarts
    /\ starts' = starts + 1
    /\ spawner' = "start" /\ births' = MaxWorkers
    /\ UNCHANGED <<running, stopVars, uncounted, taskQueue, jobVars, workerVars,
                   metrics, outVars, hmDue, panicked>>

\* The check releases the read lock before restartWorkers takes the write lock.
\* A monitor whose stopChan is closed may still take a tick that is already due.
CheckHealth(g) ==
    /\ Up /\ LockFree /\ running
    /\ g <= starts /\ hmDue[g] = 0
    /\ metrics.activeWorkers < MaxWorkers
    /\ hmDue' = [hmDue EXCEPT ![g] = MaxWorkers - metrics.activeWorkers]
    /\ UNCHANGED <<lifeVars, taskQueue, jobVars, workerVars, metrics, outVars, panicked>>

RestartWorkers(g) ==
    /\ Up /\ LockFree /\ hmDue[g] > 0
    /\ spawner' = "restart" /\ births' = hmDue[g]
    /\ hmDue' = [hmDue EXCEPT ![g] = 0]
    /\ UNCHANGED <<running, starts, stopVars, uncounted, taskQueue, jobVars, workerVars,
                   metrics, outVars, panicked>>

\* wg.Add(1) and go runWorker; an identity whose goroutine has ended is used again.
SpawnWorker ==
    /\ Up /\ births > 0 /\ ~uncounted
    /\ \E w \in Unborn : wpc' = [wpc EXCEPT ![w] = "select"]
    /\ births' = births - 1
    /\ uncounted' = TRUE
    /\ UNCHANGED <<running, starts, stopVars, spawner, taskQueue, jobVars, wjob,
                   metrics, outVars, hmDue, panicked>>

CountWorker ==
    /\ Up /\ uncounted
    /\ uncounted' = FALSE
    /\ metrics' = [metrics EXCEPT !.activeWorkers = @ + 1]
    /\ UNCHANGED <<running, starts, stopVars, spawner, births, taskQueue, jobVars,
                   workerVars, outVars, hmDue, panicked>>

\* Mutant of SpawnDone: the lock is released before the last worker is counted.
SpawnDoneEarly ==
    /\ Up /\ spawner # "nobody" /\ births = 0
    /\ running' = (running \/ spawner = "start")
    /\ spawner' = "nobody"
    /\ UNCHANGED <<starts, stopVars, births, uncounted, taskQueue, jobVars, workerVars,
                   metrics, outVars, hmDue, panicked>>

\* p.running.Store(true) comes after Start's last worker.
SpawnDone ==
    /\ Up /\ spawner # "nobody" /\ births = 0 /\ ~uncounted
    /\ running' = (running \/ spawner = "start")
    /\ spawner' = "nobody"
    /\ UNCHANGED <<starts, stopVars, births, uncounted, taskQueue, jobVars, workerVars,
                   metrics, outVars, hmDue, panicked>>

-----------------------------------------------------------------------------
(* Submit, called by a client (from "idle") or by the retry goroutine that *)
(* wakes from its backoff: the WorkerTask it makes starts with Retries 0.  *)

SubmitCheck(j) ==
    /\ Up /\ sub[j] \in {"idle", "backoff"}
    /\ SumFunction(attempts) < MaxSubmits
    /\ attempts' = [attempts EXCEPT ![j] = @ + 1]
    /\ sub' = [sub EXCEPT ![j] = IF running THEN "checked" ELSE "rejected"]
    /\ retries' = [retries EXCEPT ![j] = IF running THEN 0 ELSE @]
    /\ UNCHANGED <<lifeVars, taskQueue, workerVars, metrics, outVars, hmDue, panicked>>

\* Two atomic adds in a row, of which only the second is one the pool acts on: tasksQueued
\* is read by the metrics summary alone, which loads one counter after the other anyway.
SubmitCount(j) ==
    /\ Up /\ sub[j] = "checked"
    /\ sub' = [sub EXCEPT ![j] = "sending"]
    /\ metrics' = [metrics EXCEPT !.tasksQueued = @ + 1, !.queueDepth = @ + 1]
    /\ UNCHANGED <<lifeVars, taskQueue, retries, attempts, workerVars, outVars,
                   hmDue, panicked>>

RoomForOneMore == Len(taskQueue) <= QueueSize    \* mutant of QueueHasRoom: off by one

QueueHasRoom == Len(taskQueue) < QueueSize

SubmitSend(j) ==
    /\ Up /\ sub[j] = "sending" /\ ~queueClosed
    /\ QueueHasRoom
    /\ taskQueue' = Append(taskQueue, j)
    /\ sub' = [sub EXCEPT ![j] = "accepted"]
    /\ UNCHANGED <<lifeVars, retries, attempts, workerVars, metrics, outVars,
                   hmDue, panicked>>

SubmitPanic(j) ==
    /\ Up /\ sub[j] = "sending" /\ queueClosed
    /\ Panic("submit")

\* Mutant of RolledBack: only one of the two counters is taken back.
HalfRolledBack == [metrics EXCEPT !.tasksQueued = @ - 1]

RolledBack == [metrics EXCEPT !.tasksQueued = @ - 1, !.queueDepth = @ - 1]

\* The five seconds have passed or a context is done, possibly with room in the queue.
SubmitGiveUp(j) ==
    /\ Up /\ sub[j] = "sending"
    /\ sub' = [sub EXCEPT ![j] = "rejected"]
    /\ metrics' = RolledBack
    /\ UNCHANGED <<lifeVars, taskQueue, retries, attempts, workerVars, outVars,
                   hmDue, panicked>>

-----------------------------------------------------------------------------
(* runWorker.                                                              *)

Move(w, state) == wpc' = [wpc EXCEPT ![w] = state]

\* Mutant of Receive: the task is read but stays in the queue until it is done.
Peek(w) ==
    /\ Up /\ wpc[w] = "select" /\ taskQueue # <<>>
    /\ wjob' = [wjob EXCEPT ![w] = Head(taskQueue)]
    /\ Move(w, "received")
    /\ UNCHANGED <<lifeVars, taskQueue, jobVars, metrics, outVars, hmDue, panicked>>

\* Mutant of Receive: a task received after the cancellation is let fall.
ReceiveUnlessDone(w) ==
    /\ Up /\ wpc[w] = "select" /\ taskQueue # <<>>
    /\ wjob' = [wjob EXCEPT ![w] = IF ctxDone THEN NoJob ELSE Head(taskQueue)]
    /\ taskQueue' = Tail(taskQueue)
    /\ Move(w, IF ctxDone THEN "select" ELSE "received")
    /\ UNCHANGED <<lifeVars, jobVars, metrics, outVars, hmDue, panicked>>

Receive(w) ==
    /\ Up /\ wpc[w] = "select" /\ taskQueue # <<>>
    /\ wjob' = [wjob EXCEPT ![w] = Head(taskQueue)]
    /\ taskQueue' = Tail(taskQueue)
    /\ Move(w, "received")
    /\ UNCHANGED <<lifeVars, jobVars, metrics, outVars, hmDue, panicked>>

CountDequeue(w) ==
    /\ Up /\ wpc[w] = "received"
    /\ Move(w, Counting)
    /\ metrics' = [metrics EXCEPT !.queueDepth = @ - 1]
    /\ UNCHANGED <<lifeVars, taskQueue, jobVars, wjob, outVars, hmDue, panicked>>

BeginTask(w) ==
    /\ Up /\ wpc[w] = Counting
    /\ Move(w, "processing")
    /\ metrics' = [metrics EXCEPT !.tasksProcessing = @ + 1]
    /\ UNCHANGED <<lifeVars, taskQueue, jobVars, wjob, outVars, hmDue, panicked>>

\* ProcessTask returns a result or an error.  When its deferred recover caught a panic
\* it returns nil, nil (its results are unnamed), which the pool takes for a success;
\* module Worker tells the two apart.
EndTask(w) ==
    /\ Up /\ wpc[w] = "processing"
    /\ \E outcome \in {"succeeded", "failed"} : Move(w, outcome)
    /\ metrics' = [metrics EXCEPT !.tasksProcessing = @ - 1]
    /\ UNCHANGED <<lifeVars, taskQueue, jobVars, wjob, outVars, hmDue, panicked>>

\* Mutant of Offer: the last slot of the channel is never used.
OfferShort(c) ==
    out' = IF out[c].held + 1 < QueueSize THEN [out EXCEPT ![c].held = @ + 1] ELSE out

\* A non-blocking send: the value is dropped when the channel is full.
Offer(c) ==
    out' = IF out[c].held < QueueSize THEN [out EXCEPT ![c].held = @ + 1] ELSE out

CompleteTask(w) ==
    /\ Up /\ wpc[w] = "succeeded" /\ ~out["resultCh"].closed
    /\ metrics' = [metrics EXCEPT !.tasksCompleted = @ + 1]
    /\ Offer("resultCh")
    /\ dropped' = (dropped \/ out' = out)
    /\ sub' = [sub EXCEPT ![wjob[w]] = "completed"]
    /\ wjob' = [wjob EXCEPT ![w] = NoJob]
    /\ Move(w, "select")
    /\ UNCHANGED <<lifeVars, taskQueue, retries, attempts, hmDue, panicked>>

\* Closing makes the send case ready, so the select never reaches its default.
WorkerPanic(w) ==
    /\ Up /\ wpc[w] = "succeeded" /\ out["resultCh"].closed
    /\ Panic("worker")

\* errorCh is closed right after resultCh; a send on it once closed is a panic too,
\* but Retries is 0 on every attempt, so the ELSE branch is never taken.
FailTask(w) ==
    LET j == wjob[w] IN
    /\ Up /\ wpc[w] = "failed"
    /\ metrics' = [metrics EXCEPT !.tasksFailed = @ + 1]
    /\ IF retries[j] < MaxRetries
          THEN /\ retries' = [retries EXCEPT ![j] = @ + 1]
               /\ sub' = [sub EXCEPT ![j] = "backoff"]
               /\ UNCHANGED <<out, panicked>>
          ELSE /\ sub' = [sub EXCEPT ![j] = "failed"]
               /\ Offer("errorCh")
               /\ panicked' = IF out["errorCh"].closed THEN "worker" ELSE "no"
               /\ UNCHANGED retries
    /\ wjob' = [wjob EXCEPT ![w] = NoJob]
    /\ Move(w, "select")
    /\ UNCHANGED <<lifeVars, taskQueue, attempts, dropped, hmDue>>

LeaveWhenIdle == ctxDone \/ taskQueue = <<>>     \* mutant of MayLeave: an empty queue ends the loop

\* The select sees the cancelled context or the closed, drained queue.
MayLeave == ctxDone \/ (queueClosed /\ taskQueue = <<>>)

\* Of the two deferred calls the counter's runs first, then wg.Done.
ExitLoop(w) ==
    /\ Up /\ wpc[w] = "select"
    /\ MayLeave
    /\ Move(w, "leaving")
    /\ metrics' = [metrics EXCEPT !.activeWorkers = @ - 1]
    /\ UNCHANGED <<lifeVars, taskQueue, jobVars, wjob, outVars, hmDue, panicked>>

\* Mutant of Exited: wg.Done only on the path that drained the queue.
ExitedDrained(w) ==
    /\ Up /\ wpc[w] = "leaving" /\ taskQueue = <<>>
    /\ Move(w, "unborn")
    /\ UNCHANGED <<lifeVars, taskQueue, jobVars, wjob, metrics, outVars, hmDue, panicked>>

Exited(w) ==
    /\ Up /\ wpc[w] = "leaving"
    /\ Move(w, "unborn")
    /\ UNCHANGED <<lifeVars, taskQueue, jobVars, wjob, metrics, outVars, hmDue, panicked>>

-----------------------------------------------------------------------------
(* Stop: holds p.mu from its first step to its last.                       *)

StopBegin ==
    /\ Up /\ LockFree /\ running
    /\ running' = FALSE
    /\ stop' = "cancel"
    /\ UNCHANGED <<starts, timedOut, ctxDone, queueClosed, spawnVars, taskQueue, jobVars,
                   workerVars, metrics, outVars, hmDue, panicked>>

StopCancel ==
    /\ Up /\ stop = "cancel"
    /\ ctxDone' = TRUE
    /\ stop' = "closeQueue"
    /\ UNCHANGED <<running, starts, timedOut, queueClosed, spawnVars, taskQueue,
                   jobVars,
                   workerVars, metrics, outVars, hmDue, panicked>>

\* A second Stop closes the same taskQueue again.
StopCloseQueue ==
    /\ Up /\ stop = "closeQueue" /\ ~queueClosed
    /\ queueClosed' = TRUE
    /\ stop' = "wait"
    /\ UNCHANGED <<running, starts, timedOut, ctxDone, spawnVars, taskQueue,
                   jobVars,
                   workerVars, metrics, outVars, hmDue, panicked>>

StopPanic ==
    /\ Up /\ stop = "closeQueue" /\ queueClosed
    /\ Panic("stop")

NothingProcessing == metrics.tasksProcessing = 0   \* mutant of WaitGroupDone: waits for the gauge

WaitGroupDone == InWaitGroup = {}

StopDrained ==
    /\ Up /\ stop = "wait" /\ WaitGroupDone
    /\ stop' = "closeResults"
    /\ UNCHANGED <<running, starts, timedOut, ctxDone, queueClosed, spawnVars, taskQueue,
                   jobVars,
                   workerVars, metrics, outVars, hmDue, panicked>>

StopTimeout ==
    /\ Up /\ stop = "wait"
    /\ timedOut' = TRUE
    /\ stop' = "closeResults"
    /\ UNCHANGED <<running, starts, ctxDone, queueClosed, spawnVars, taskQueue,
                   jobVars,
                   workerVars, metrics, outVars, hmDue, panicked>>

CloseOutput(c, from, to) ==
    /\ Up /\ stop = from
    /\ out' = [out EXCEPT ![c].closed = TRUE]
    /\ stop' = to
    /\ UNCHANGED <<running, starts, timedOut, ctxDone, queueClosed, spawnVars, taskQueue,
                   jobVars,
                   workerVars, metrics, dropped, hmDue, panicked>>

StopCloseResults == CloseOutput("resultCh", "closeResults", "closeErrors")
StopCloseErrors  == CloseOutput("errorCh", "closeErrors", "idle")

-----------------------------------------------------------------------------
(* A client that reads GetResults or GetErrors.                            *)

Take(c) ==
    /\ Up /\ out[c].held > 0
    /\ out' = [out EXCEPT ![c].held = @ - 1]
    /\ UNCHANGED <<lifeVars, taskQueue, jobVars, workerVars, metrics, dropped,
                   hmDue, panicked>>

-----------------------------------------------------------------------------
SpawnStep == SpawnWorker \/ CountWorker \/ SpawnDone

SubmitReturn(j) == SubmitSend(j) \/ SubmitPanic(j) \/ SubmitGiveUp(j)

WorkerStep(w) ==
    \/ Receive(w) \/ CountDequeue(w) \/ BeginTask(w) \/ EndTask(w)
    \/ CompleteTask(w) \/ WorkerPanic(w) \/ FailTask(w)
    \/ ExitLoop(w) \/ Exited(w)

StopStep ==
    \/ StopCancel \/ StopCloseQueue \/ StopPanic \/ StopDrained \/ StopTimeout
    \/ StopCloseResults \/ StopCloseErrors

Next ==
    \/ Start \/ SpawnStep \/ StopBegin \/ StopStep
    \/ \E g \in 1..MaxStarts : CheckHealth(g) \/ RestartWorkers(g)
    \/ \E j \in Job : SubmitCheck(j) \/ SubmitCount(j) \/ SubmitReturn(j)
    \/ \E w \in Worker : WorkerStep(w)
    \/ \E c \in Channel : Take(c)

Spec == Init /\ [][Next]_vars

\* Workers are scheduled, ProcessTask ends because its context has the deadline
\* WorkerTimeout, and a Stop that has begun goes on.  Nothing obliges a client to
\* submit, to stop or to read results, and no property needs a Submit or a Start to
\* go on.
Fairness ==
    /\ \A w \in Worker : WF_vars(WorkerStep(w))
    /\ WF_vars(StopStep)

FairSpec == Spec /\ Fairness

-----------------------------------------------------------------------------
(* Properties.                                                             *)

\* Every variable of the pool has its type; counters are integers, and what the
\* channels hold is bounded by their capacity.
TypeOK ==
    /\ running \in BOOLEAN /\ timedOut \in BOOLEAN
    /\ ctxDone \in BOOLEAN /\ queueClosed \in BOOLEAN
    /\ starts \in 0..MaxStarts
    /\ stop \in StopState /\ spawner \in Spawner
    /\ births \in Nat /\ uncounted \in BOOLEAN
    /\ taskQueue \in Seq(Job) /\ Len(taskQueue) <= QueueSize
    /\ sub \in [Job -> SubState]
    /\ retries \in [Job -> Nat] /\ attempts \in [Job -> Nat]
    /\ wpc \in [Worker -> WorkState] /\ wjob \in [Worker -> Job \cup {NoJob}]
    /\ metrics \in WorkerPoolMetrics
    /\ out \in [Channel -> OutputChannel]
    /\ \A c \in Channel : out[c].held <= QueueSize
    /\ dropped \in BOOLEAN
    /\ hmDue \in [1..MaxStarts -> Nat]
    /\ panicked \in {"no", "submit", "worker", "stop"}

\* The gauges of p.metrics are exact although each is a separate atomic updated
\* before or after the event it counts: queueDepth counts the buffered tasks, the
\* submitters still trying to send and the workers that have received but not yet
\* decremented it, however sends, timeouts, cancellations and receives interleave.
\* activeWorkers counts every worker in its loop but the one the spawner has still to
\* count; in a second life, whose context is cancelled, that one may have left before,
\* and a reader without the lock (observeMetrics, GetMetricsSummary) sees one too few,
\* even -1.  Under p.mu, as checkHealth and GetHealthStatus read it, it is exact.
GaugesExact ==
    /\ metrics.queueDepth =
          Len(taskQueue) + Cardinality(Sending) + Cardinality(At({"received"}))
    /\ metrics.tasksProcessing = Cardinality(At({"processing"}))
    /\ metrics.activeWorkers = Cardinality(Active) - (IF uncounted THEN 1 ELSE 0)
    /\ LockFree => ~uncounted

\* tasksQueued accounts for every attempt exactly once: waiting, running, completed,
\* failed, or in one of the windows in which a worker has moved it out of one
\* counter and not yet into the next.  Rolled-back submissions leave no trace.
MetricsConserved ==
    metrics.tasksQueued =
        metrics.queueDepth + metrics.tasksProcessing
        + metrics.tasksCompleted + metrics.tasksFailed
        + Cardinality(At({Counting, "succeeded", "failed"}))

\* One WorkerTask per chain: a job that waits in the queue is there once and no
\* worker holds it, no two workers hold the same job, and a retry goroutine or a
\* submitter never acts for a job that is still queued or being processed.
OneHolder ==
    /\ \A i, k \in 1..Len(taskQueue) : taskQueue[i] = taskQueue[k] => i = k
    /\ \A i \in 1..Len(taskQueue) : sub[taskQueue[i]] = "accepted"
    /\ \A w \in Worker : wpc[w] \in HoldsTask <=> wjob[w] # NoJob
    /\ \A w \in Worker : wjob[w] # NoJob => sub[wjob[w]] = "accepted" /\ ~InQueue(wjob[w])
    /\ \A v, w \in Worker : wjob[v] = wjob[w] /\ wjob[v] # NoJob => v = w

\* An accepted task is never lost by the pool while it is up: it is in the queue or
\* some worker holds it.
AcceptedIsHeld ==
    \A j \in Job : sub[j] = "accepted" =>
        InQueue(j) \/ \E w \in Worker : wjob[w] = j

\* In the pool's first life nothing ever makes the health monitor restart a worker:
\* while the pool runs every worker it started is alive and counted, so
\* activeWorkers < expected needs a Stop (or a second Start on a closed queue).
FirstLifeNeedsNoRestart ==
    starts = 1 => /\ running => metrics.activeWorkers = MaxWorkers
                  /\ \A g \in 1..MaxStarts : hmDue[g] = 0

\* A Stop that did not time out closes resultCh and errorCh only after the last
\* worker has left its loop, so in the first life a worker panics on a closed
\* channel only if Stop gave up waiting for it.
GracefulStop ==
    starts = 1 /\ ~timedOut =>
        /\ out["resultCh"].closed => InWaitGroup = {}
        /\ panicked # "worker"

\* A result is dropped for want of room only if more tasks have completed than
\* resultCh can hold: no interleaving of two workers' non-blocking sends loses a
\* result that would have fitted.
DropsOnlyOnOverflow ==
    dropped => metrics.tasksCompleted > QueueSize

\* While the pool runs, a queued task is received by some worker, whatever its
\* colleagues are doing and however many tasks are submitted behind it.
QueuedTaskIsServed ==
    \A j \in Job : InQueue(j) ~> (~InQueue(j) \/ ctxDone \/ ~Up)

\* Once Stop has cancelled the context every worker that was ever started, the one born
\* in a second life on the cancelled context included, leaves its loop and the wait
\* group, also when it was processing or finds more tasks in the closed queue.
WorkersLeave ==
    \A w \in Worker :
        ctxDone /\ w \in InWaitGroup ~> (w \notin InWaitGroup \/ ~Up)

\* What the pool is to TaskLedger: the queue waits, the workers' tasks run.
HeldTasks == {wjob[w] : w \in Worker} \ {NoJob}
OverTasks == {j \in Job : sub[j] \in {"completed", "failed"}}

Ledger == INSTANCE TaskLedger WITH
    waiting    <- taskQueue,
    running    <- HeldTasks,
    finished   <- OverTasks,
    MaxRunning <- Cardinality(Worker)

\* The pool keeps the ledger of TaskLedger: under every interleaving of submitters,
\* retries, workers and Stop a task is begun in its turn and by one worker only, ends
\* only after it was begun, and once completed or finally failed never comes back.
KeepsLedger == Ledger!Spec

-----------------------------------------------------------------------------
(* What the code's comments promise and its steps do not keep.             *)

\* worker_pool.go:344 and 359: the retries of a task back off 2s, 4s, 8s and then
\* stop, so a task is tried at most 1 + MaxRetries times.
RetriesBounded == \A j \in Job : attempts[j] <= 1 + MaxRetries

\* worker_pool.go:182: Stop shuts the pool down gracefully; it does not bring the
\* process down.
NeverPanics == Up
=============================================================================
