--------------------------- MODULE ResearcherPool ---------------------------
(***************************************************************************)
(* The researcher pool of src/pkg/workflow/researcher_pool.go with its     *)
(* workers (researcher_worker.go, task_processor.go), the forwarder that   *)
(* passes their results on to consumers, and the task tracker and counters *)
(* (pool_task_tracker.go, pool_metrics.go).                                *)
(*                                                                         *)
(* A submission is one call of SubmitTask; two submissions may carry the   *)
(* same task ID, which is all the tracker knows.  Whether a worker's       *)
(* health lets it run a task, and what the research yields, are inputs:    *)
(* module WorkerHealth is about them.                                      *)
(***************************************************************************)
EXTENDS Integers, Sequences, FiniteSets

CONSTANTS
    Submission,   \* calls of SubmitTask
    TaskID,
    IdOf,         \* the task ID of each submission
    Worker,       \* the goroutines of ResearcherWorker.run
    NoSub,        \* a goroutine that holds no submission
    QueueSize     \* ResearcherPoolConfig.QueueSize, capacity of all four channels

ASSUME ResearcherPoolAssumption ==
    /\ IsFiniteSet(Submission) /\ IsFiniteSet(Worker)
    /\ IdOf \in [Submission -> TaskID]
    /\ NoSub \notin Submission
    /\ QueueSize \in Nat \ {0}

VARIABLES
    running,      \* p.running
    ctxDone,      \* the context given to Start is cancelled
    stop,         \* where Stop is; it holds p.mu meanwhile
    timedOut,     \* Stop gave up waiting
    closed,       \* the channels closed so far, and "shutdown" for the workers' own
    taskQueue,    \* submissions in p.taskQueue
    results,      \* p.workerResultChan
    delivered,    \* p.consumerResultChan
    received,     \* submissions whose result a consumer has taken
    sub,          \* where each submission is
    wpc, wjob,    \* each worker's place and submission
    fpc, fjob,    \* the forwarder's place and the result it holds
    activeTasks,  \* the keys of taskTracker.activeTasks
    metrics,      \* p.metrics
    panicked      \* whose panic ended the process

stopVars   == <<running, stop, timedOut, closed>>
chanVars   == <<results, delivered, received>>
workerVars == <<wpc, wjob>>
fwdVars    == <<fpc, fjob>>
trackVars  == <<activeTasks, metrics>>

vars == <<stopVars, ctxDone, taskQueue, chanVars, sub, workerVars, fwdVars, trackVars, panicked>>

Chan       == {"taskQueue", "shutdown", "results", "delivered", "errors"}
SubState   == {"idle", "sending", "refused", "withdrawn", "accepted",
               "sent", "dropped", "discarded", "failed"}
HoldsTask  == {"received", "registering", "executing", "succeeded", "failing"}
WorkState  == {"unborn", "select", "exited"} \cup HoldsTask
FwdState   == {"unborn", "select", "tracking", "completing", "forwarding", "exited"}
StopState  == {"idle", "closeQueue", "shutdown", "closeResults", "wait",
               "closeDelivered", "closeErrors", "stopped"}

PoolMetrics == [tasksQueued : Int, tasksProcessing : Int, tasksCompleted : Int]

At(state)  == {w \in Worker : wpc[w] \in state}
In(state)  == {s \in Submission : sub[s] \in state}
Up         == panicked = "no"

HasRoomForOneMore(chan) == Len(chan) <= QueueSize    \* mutant of HasRoom: off by one

HasRoom(chan) == Len(chan) < QueueSize

Init ==
    /\ running = FALSE /\ ctxDone = FALSE /\ stop = "idle" /\ timedOut = FALSE
    /\ closed = {}
    /\ taskQueue = <<>> /\ results = <<>> /\ delivered = <<>>
    /\ received = {}
    /\ sub = [s \in Submission |-> "idle"]
    /\ wpc = [w \in Worker |-> "unborn"] /\ wjob = [w \in Worker |-> NoSub]
    /\ fpc = "unborn" /\ fjob = NoSub
    /\ activeTasks = {}
    /\ metrics = [tasksQueued |-> 0, tasksProcessing |-> 0, tasksCompleted |-> 0]
    /\ panicked = "no"

Panic(who) ==
    /\ panicked' = who
    /\ UNCHANGED <<stopVars, ctxDone, taskQueue, chanVars, sub, workerVars, fwdVars,
                   trackVars>>

\* Start, once: a pool that was stopped has only closed channels to offer.
Start ==
    /\ Up /\ stop = "idle" /\ ~running
    /\ running' = TRUE
    /\ wpc' = [w \in Worker |-> "select"]
    /\ fpc' = "select"
    /\ UNCHANGED <<stop, timedOut, closed, ctxDone, taskQueue, chanVars, sub, wjob, fjob,
                   trackVars, panicked>>

CancelContext ==
    /\ Up /\ running /\ ~ctxDone
    /\ ctxDone' = TRUE
    /\ UNCHANGED <<stopVars, taskQueue, chanVars, sub, workerVars, fwdVars, trackVars, panicked>>

-----------------------------------------------------------------------------
(* SubmitTask: the check of running and the counter, then the select.      *)

SubmitTask(s) ==
    /\ Up /\ sub[s] = "idle"
    /\ IF running
          THEN /\ sub' = [sub EXCEPT ![s] = "sending"]
               /\ metrics' = [metrics EXCEPT !.tasksQueued = @ + 1]
          ELSE /\ sub' = [sub EXCEPT ![s] = "refused"]
               /\ UNCHANGED metrics
    /\ UNCHANGED <<stopVars, ctxDone, taskQueue, chanVars, workerVars, fwdVars, activeTasks,
                   panicked>>

SubmitSend(s) ==
    /\ Up /\ sub[s] = "sending" /\ "taskQueue" \notin closed
    /\ HasRoom(taskQueue)
    /\ taskQueue' = Append(taskQueue, s)
    /\ sub' = [sub EXCEPT ![s] = "accepted"]
    /\ UNCHANGED <<stopVars, ctxDone, chanVars, workerVars, fwdVars, trackVars, panicked>>

SubmitPanic(s) ==
    /\ Up /\ sub[s] = "sending" /\ "taskQueue" \in closed
    /\ Panic("submit")

\* Mutant of SubmitWithdraw: the counter is not taken back.
SubmitWithdrawCounted(s) ==
    /\ Up /\ sub[s] = "sending"
    /\ sub' = [sub EXCEPT ![s] = "withdrawn"]
    /\ UNCHANGED <<stopVars, ctxDone, taskQueue, chanVars, workerVars, fwdVars, trackVars,
                   panicked>>

\* Five seconds have passed on a full queue, or the submitter's own context is done.
SubmitWithdraw(s) ==
    /\ Up /\ sub[s] = "sending"
    /\ sub' = [sub EXCEPT ![s] = "withdrawn"]
    /\ metrics' = [metrics EXCEPT !.tasksQueued = @ - 1]
    /\ UNCHANGED <<stopVars, ctxDone, taskQueue, chanVars, workerVars, fwdVars, activeTasks,
                   panicked>>

-----------------------------------------------------------------------------
(* ResearcherWorker.run and TaskProcessor.ProcessTask.                     *)

Move(w, from, to) == wpc[w] = from /\ wpc' = [wpc EXCEPT ![w] = to]

Receive(w) ==
    /\ Up /\ taskQueue # <<>>
    /\ Move(w, "select", "received")
    /\ wjob' = [wjob EXCEPT ![w] = Head(taskQueue)]
    /\ taskQueue' = Tail(taskQueue)
    /\ UNCHANGED <<stopVars, ctxDone, chanVars, sub, fwdVars, trackVars, panicked>>

\* The tracker's lock; the counters can be read without it.
TrackerFree == At({"registering"}) = {} /\ fpc # "completing"

\* RegisterTaskStart, first half: an active task with the same ID is overwritten.
RegisterTaskStart(w) ==
    /\ Up /\ TrackerFree
    /\ Move(w, "received", "registering")
    /\ activeTasks' = activeTasks \cup {IdOf[wjob[w]]}
    /\ metrics' = [metrics EXCEPT !.tasksQueued = @ - 1]
    /\ UNCHANGED <<stopVars, ctxDone, taskQueue, chanVars, sub, wjob, fwdVars, panicked>>

\* RegisterTaskStart, second half: it is counted as processing in any case.
CountProcessing(w) ==
    /\ Up /\ Move(w, "registering", "executing")
    /\ metrics' = [metrics EXCEPT !.tasksProcessing = @ + 1]
    /\ UNCHANGED <<stopVars, ctxDone, taskQueue, chanVars, sub, wjob, fwdVars, activeTasks,
                   panicked>>

\* A result; or an error, because the worker's health refuses the task, because the
\* research fails after its retries, or because a panic was recovered.
Execute(w) ==
    /\ Up
    /\ \E outcome \in {"succeeded", "failing"} : Move(w, "executing", outcome)
    /\ UNCHANGED <<stopVars, ctxDone, taskQueue, chanVars, sub, wjob, fwdVars, trackVars, panicked>>

Finish(w, state) ==
    /\ sub' = [sub EXCEPT ![wjob[w]] = state]
    /\ wjob' = [wjob EXCEPT ![w] = NoSub]

SendResult(w) ==
    /\ Up /\ "results" \notin closed /\ HasRoom(results)
    /\ Move(w, "succeeded", "select")
    /\ results' = Append(results, wjob[w])
    /\ Finish(w, "sent")
    /\ UNCHANGED <<stopVars, ctxDone, taskQueue, delivered, received, fwdVars, trackVars,
                   panicked>>

\* The task's two minutes are over, or Start's context is done: the result is lost.
DropResult(w) ==
    /\ Up
    /\ Move(w, "succeeded", "select")
    /\ Finish(w, "dropped")
    /\ UNCHANGED <<stopVars, ctxDone, taskQueue, chanVars, fwdVars, trackVars, panicked>>

\* The send on the closed channel panics; ProcessTask recovers, records a failure and
\* reports an error for a task that has succeeded.
SendRecovered(w) ==
    /\ Up /\ "results" \in closed
    /\ Move(w, "succeeded", "failing")
    /\ sub' = [sub EXCEPT ![wjob[w]] = "discarded"]
    /\ UNCHANGED <<stopVars, ctxDone, taskQueue, chanVars, wjob, fwdVars, trackVars, panicked>>

\* handleError: a send that does not block, so the number of errors in the channel makes
\* no difference to anyone.  On the closed channel the select may still choose the done
\* context, unless this is the deferred recovery.  Nothing tells the tracker.
SendError(w) ==
    /\ Up /\ Move(w, "failing", "select")
    /\ "errors" \notin closed \/ sub[wjob[w]] # "discarded"
    /\ Finish(w, IF sub[wjob[w]] = "discarded" THEN "discarded" ELSE "failed")
    /\ UNCHANGED <<stopVars, ctxDone, taskQueue, chanVars, fwdVars, trackVars, panicked>>

\* On the closed channel the send panics; the deferred recovery sends there again.
ErrorPanic(w) ==
    /\ Up /\ wpc[w] = "failing" /\ "errors" \in closed
    /\ Panic("worker")

LeaveOnContext == ctxDone      \* mutant of MayLeave: only the context ends the loop

MayLeave ==
    \/ ctxDone
    \/ "shutdown" \in closed
    \/ "taskQueue" \in closed /\ taskQueue = <<>>

Leave(w) ==
    /\ Up /\ MayLeave
    /\ Move(w, "select", "exited")
    /\ UNCHANGED <<stopVars, ctxDone, taskQueue, chanVars, sub, wjob, fwdVars, trackVars, panicked>>

-----------------------------------------------------------------------------
(* forwardResults.  It watches the context given to Start, not p.ctx.      *)

ForwardReceive ==
    /\ Up /\ fpc = "select" /\ results # <<>>
    /\ fpc' = "tracking" /\ fjob' = Head(results)
    /\ results' = Tail(results)
    /\ UNCHANGED <<stopVars, ctxDone, taskQueue, delivered, received, sub, workerVars,
                   trackVars, panicked>>

\* Mutant of TrackTaskCompletion: what the tracker does not know is counted as well.
TrackAnyCompletion ==
    /\ Up /\ fpc = "tracking" /\ TrackerFree
    /\ fpc' = "completing"
    /\ metrics' = [metrics EXCEPT !.tasksProcessing = IF IdOf[fjob] \in activeTasks
                                                        THEN @ - 1 ELSE @]
    /\ UNCHANGED <<stopVars, ctxDone, taskQueue, chanVars, sub, workerVars, fjob, activeTasks,
                   panicked>>

\* TrackTaskCompletion, first half.  The second of two results with one ID finds
\* nothing to remove and counts nothing.
TrackTaskCompletion ==
    /\ Up /\ fpc = "tracking" /\ TrackerFree
    /\ IF IdOf[fjob] \in activeTasks
          THEN /\ metrics' = [metrics EXCEPT !.tasksProcessing = @ - 1]
               /\ fpc' = "completing"
          ELSE fpc' = "forwarding" /\ UNCHANGED metrics
    /\ UNCHANGED <<stopVars, ctxDone, taskQueue, chanVars, sub, workerVars, fjob, activeTasks,
                   panicked>>

\* TrackTaskCompletion, second half.
CountCompleted ==
    /\ Up /\ fpc = "completing"
    /\ metrics' = [metrics EXCEPT !.tasksCompleted = @ + 1]
    /\ activeTasks' = activeTasks \ {IdOf[fjob]}
    /\ fpc' = "forwarding"
    /\ UNCHANGED <<stopVars, ctxDone, taskQueue, chanVars, sub, workerVars, fjob, panicked>>

Forward ==
    /\ Up /\ fpc = "forwarding" /\ "delivered" \notin closed
    /\ HasRoom(delivered)
    /\ delivered' = Append(delivered, fjob)
    /\ fpc' = "select" /\ fjob' = NoSub
    /\ UNCHANGED <<stopVars, ctxDone, taskQueue, results, received, sub, workerVars,
                   trackVars, panicked>>

ForwardPanic ==
    /\ Up /\ fpc = "forwarding" /\ "delivered" \in closed
    /\ Panic("forwarder")

\* Mutant of ForwardMayLeave: the forwarder ends as soon as Stop has cancelled p.ctx.
ForwardLeavesOnStop == ctxDone \/ "results" \in closed

ForwardMayLeave == ctxDone \/ ("results" \in closed /\ results = <<>> /\ fpc = "select")

ForwardLeave ==
    /\ Up /\ fpc \in {"select", "forwarding"} /\ ForwardMayLeave
    /\ fpc' = "exited" /\ fjob' = NoSub
    /\ UNCHANGED <<stopVars, ctxDone, taskQueue, chanVars, sub, workerVars, trackVars, panicked>>

-----------------------------------------------------------------------------
(* Stop.                                                                   *)

StopBegin ==
    /\ Up /\ stop = "idle" /\ running
    /\ running' = FALSE /\ stop' = "closeQueue"
    /\ UNCHANGED <<timedOut, closed, ctxDone, taskQueue, chanVars, sub, workerVars, fwdVars,
                   trackVars, panicked>>

Close(from, to, chan) ==
    /\ Up /\ stop = from
    /\ closed' = closed \cup {chan}
    /\ stop' = to
    /\ UNCHANGED <<running, timedOut, ctxDone, taskQueue, chanVars, sub, workerVars, fwdVars,
                   trackVars, panicked>>

WorkersGone == At({"select"} \cup HoldsTask) = {}

\* A mutant of it, WorkersGone, does not wait for the forwarder.
WaitGroupDone == WorkersGone /\ fpc = "exited"

\* p.wg covers the workers and the forwarder; the wait ends after thirty seconds.
StopWait ==
    /\ Up /\ stop = "wait"
    /\ \/ WaitGroupDone /\ UNCHANGED timedOut
       \/ timedOut' = TRUE
    /\ stop' = "closeDelivered"
    /\ UNCHANGED <<running, closed, ctxDone, taskQueue, chanVars, sub, workerVars, fwdVars,
                   trackVars, panicked>>

StopStep ==
    \/ Close("closeQueue", "shutdown", "taskQueue")
    \/ Close("shutdown", "closeResults", "shutdown")
    \/ Close("closeResults", "wait", "results")
    \/ StopWait
    \/ Close("closeDelivered", "closeErrors", "delivered")
    \/ Close("closeErrors", "stopped", "errors")

-----------------------------------------------------------------------------
(* Consumers of GetResults.                                                *)

TakeResult ==
    /\ Up /\ delivered # <<>>
    /\ received' = received \cup {Head(delivered)}
    /\ delivered' = Tail(delivered)
    /\ UNCHANGED <<stopVars, ctxDone, taskQueue, results, sub, workerVars, fwdVars,
                   trackVars, panicked>>

-----------------------------------------------------------------------------
SubmitStep(s) == SubmitSend(s) \/ SubmitPanic(s) \/ SubmitWithdraw(s)

WorkerStep(w) ==
    \/ Receive(w) \/ RegisterTaskStart(w) \/ CountProcessing(w) \/ Execute(w)
    \/ SendResult(w) \/ DropResult(w) \/ SendRecovered(w)
    \/ SendError(w) \/ ErrorPanic(w) \/ Leave(w)

ForwardStep ==
    \/ ForwardReceive \/ TrackTaskCompletion \/ CountCompleted
    \/ Forward \/ ForwardPanic \/ ForwardLeave

Next ==
    \/ Start \/ CancelContext \/ StopBegin \/ StopStep
    \/ \E s \in Submission : SubmitTask(s) \/ SubmitStep(s)
    \/ \E w \in Worker : WorkerStep(w)
    \/ ForwardStep \/ TakeResult

\* Goroutines are scheduled, research ends at its deadline, and a Stop that has begun
\* goes on.  Nobody has to submit, to stop or to read results.
Fairness ==
    /\ \A w \in Worker : WF_vars(WorkerStep(w))
    /\ WF_vars(ForwardStep) /\ WF_vars(StopStep)

Spec == Init /\ [][Next]_vars /\ Fairness

-----------------------------------------------------------------------------
(* Properties.                                                             *)

\* Types, and channels within their capacity.
TypeOK ==
    /\ running \in BOOLEAN /\ ctxDone \in BOOLEAN /\ timedOut \in BOOLEAN
    /\ stop \in StopState /\ closed \subseteq Chan
    /\ taskQueue \in Seq(Submission) /\ results \in Seq(Submission)
    /\ delivered \in Seq(Submission)
    /\ Len(taskQueue) <= QueueSize /\ Len(results) <= QueueSize /\ Len(delivered) <= QueueSize
    /\ received \subseteq Submission
    /\ sub \in [Submission -> SubState]
    /\ wpc \in [Worker -> WorkState] /\ wjob \in [Worker -> Submission \cup {NoSub}]
    /\ fpc \in FwdState /\ fjob \in Submission \cup {NoSub}
    /\ activeTasks \subseteq TaskID
    /\ metrics \in PoolMetrics
    /\ panicked \in {"no", "submit", "worker", "forwarder"}

\* tasksQueued is counted by the submitter before it sends and uncounted by the worker
\* that registers the task, or by the submitter that gives up: it is never off.
QueuedGaugeExact ==
    metrics.tasksQueued =
        Len(taskQueue) + Cardinality(In({"sending"})) + Cardinality(At({"received"}))

Started(s) ==
    \/ sub[s] \in {"sent", "dropped", "discarded", "failed"}
    \/ \E w \in Worker : wjob[w] = s /\ wpc[w] \notin {"select", "received", "registering"}

\* Every start is counted once and stays counted: in tasksProcessing, in tasksCompleted
\* or, while the forwarder stands between the two, in neither, which GetSnapshot, reading
\* without the tracker's lock, can see.  Two results with one ID count one completion.
StartsConserved ==
    metrics.tasksProcessing + metrics.tasksCompleted + (IF fpc = "completing" THEN 1 ELSE 0)
        = Cardinality({s \in Submission : Started(s)})

\* A result a worker has handed over is on its way to a consumer or has reached one,
\* also through Stop and its closed channels; only a cancelled Start context loses it.
SentResultSurvives ==
    \A s \in In({"sent"}) :
        \/ s \in received \/ fjob = s
        \/ \E i \in 1..Len(results) : results[i] = s
        \/ \E i \in 1..Len(delivered) : delivered[i] = s
        \/ ctxDone

\* A worker or the forwarder sends on a channel Stop has closed under it only when Stop
\* gave up waiting; the early close of workerResultChan is caught by the workers.
GracefulStop == panicked \in {"worker", "forwarder"} => timedOut

\* In a process that lives on, every worker comes to an end once Stop has closed the
\* queue, also one whose result nobody takes; and so does the forwarder, provided that
\* consumers go on emptying consumerResultChan.
StopEndsAll ==
    []Up => /\ "taskQueue" \in closed ~> WorkersGone
            /\ []<>(delivered = <<>>) => ("taskQueue" \in closed ~> fpc = "exited")

-----------------------------------------------------------------------------
(* What the code's comments promise and its steps do not keep.             *)

\* pool_task_tracker.go:105: TrackTaskError, which the pool gives every worker as its
\* callback, updates the metrics when a task fails: a task whose failure is reported is
\* not counted as processing any more.
FailureLeavesProcessing ==
    metrics.tasksProcessing <=
        Cardinality({s \in Submission : Started(s) /\ sub[s] # "failed"})

\* researcher_pool.go:169: Stop shuts the pool down gracefully; a forwarder parked on a
\* full channel nobody reads does not bring the process down.
ShutdownIsGraceful == panicked = "forwarder" => HasRoom(delivered)
=============================================================================
