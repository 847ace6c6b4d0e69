---------------------------- MODULE ResearchGraph ----------------------------
(***************************************************************************)
(* One run of ResearchGraph.Execute (src/pkg/workflow/graph.go): the       *)
(* nodes one after the other, the research loop in its two modes, and the  *)
(* report.  Without a worker pool the loop researches one task itself per  *)
(* iteration.  With one, each iteration hands every pending task to the    *)
(* pool's workers and goes on at once; they write to the same GraphState   *)
(* while the graph reads it, and the pool is stopped when the report has   *)
(* been made.                                                              *)
(*                                                                         *)
(* Of the pool (module WorkerPool) only the copies of tasks it holds are   *)
(* kept; of the supervisor (module Supervisor) that every pending task is  *)
(* submitted; of a worker (module Worker) its writes to the state.         *)
(***************************************************************************)
EXTENDS GraphState

CONSTANTS
    Worker,      \* the pool's workers
    NoTask,      \* a goroutine without a task
    Torn         \* what a finding read from a slice being replaced may be

\* parseTasksFromResponse gives every task priority 1.
ASSUME ResearchGraphAssumption ==
    /\ IsFiniteSet(Worker)
    /\ NoTask \notin TaskID /\ Torn \notin TaskID
    /\ \A t \in TaskID : Priority[t] >= 0

VARIABLES
    pooled,      \* rg.workerPool is there: MaxConcurrency > 1
    short,       \* the query has less than ten characters
    gpc,         \* where Execute is
    state,       \* the GraphState
    batch,       \* what GetPendingTasks has returned to the supervisor node
    task,        \* the task the researcher node works on
    outcome,     \* what Execute returns
    report,      \* the tasks of the report's findings
    queued,      \* copies of each task in the pool's queue
    backoff,     \* copies of each task waiting for their retry
    sending,     \* copies of each task whose retry stands in Submit's select
    wpc, wtask,  \* each worker's place and task
    closed,      \* Stop has closed the pool's queue
    timedOut,    \* Stop gave up waiting for the workers
    crashed      \* a send on a closed channel has ended the process

graphVars == <<pooled, short, gpc, batch, task, outcome, report>>
copyVars  == <<queued, backoff, sending, wtask>>
poolVars  == <<copyVars, wpc, closed, timedOut, crashed>>
vars      == <<graphVars, state, poolVars>>

Node == {"start", "clarify", "planning", "supervisor", "distribute", "submit", "researcher",
         "research", "compression", "report", "end", "extract", "closing", "waiting", "stopped",
         "done"}

Init ==
    /\ pooled \in BOOLEAN /\ short \in BOOLEAN
    /\ gpc = "start" /\ state = NewGraphState
    /\ batch = {} /\ task = NoTask
    /\ outcome = "none" /\ report = <<>>
    /\ queued = [t \in TaskID |-> 0] /\ backoff = [t \in TaskID |-> 0]
    /\ sending = [t \in TaskID |-> 0]
    /\ wpc = [w \in Worker |-> "unborn"] /\ wtask = [w \in Worker |-> NoTask]
    /\ closed = FALSE /\ timedOut = FALSE /\ crashed = FALSE

Go(from, to) == gpc = from /\ gpc' = to

\* Every return runs the deferred Stop.
Leave == IF pooled THEN "closing" ELSE "done"

Fail(from) ==
    /\ Go(from, Leave)
    /\ outcome' = "error"
    /\ UNCHANGED <<pooled, short, batch, task, report, poolVars>>

-----------------------------------------------------------------------------
(* The nodes.                                                              *)

StartNode ==
    /\ Go("start", "clarify")
    /\ state' = SetPhase(state, "start")
    /\ wpc' = [w \in Worker |-> IF pooled THEN "select" ELSE "unborn"]
    /\ UNCHANGED <<pooled, short, batch, task, outcome, report, copyVars, closed, timedOut,
                   crashed>>

\* The model's answer is asked for, but only the length of the query decides.
ClarifyNode ==
    \/ /\ Go("clarify", IF short THEN "extract" ELSE "planning")
       /\ state' = SetPhase(state, IF short THEN "complete" ELSE "planning")
       /\ UNCHANGED <<pooled, short, batch, task, outcome, report, poolVars>>
    \/ Fail("clarify") /\ UNCHANGED state

\* parseTasksFromResponse plans the same tasks (one, at present) whatever the answer.
Planned == [SetPhase(state, "research") EXCEPT !.tasks = [t \in TaskID |-> NewTask]]

PlanningNode ==
    \/ /\ Go("planning", "supervisor")
       /\ state' = Planned
       /\ UNCHANGED <<pooled, short, batch, task, outcome, report, poolVars>>
    \/ Fail("planning") /\ UNCHANGED state

IterationsAlmostOver == state.iterations > MaxIterations   \* mutant of IterationsOver: off by one

IterationsOver == state.iterations >= MaxIterations

\* Mutant of NothingLeft: one open task is nothing.
AlmostNothingLeft == Cardinality(Known(state, "pending") \cup Known(state, "in_progress")) <= 1

NothingLeft == Known(state, "pending") = {} /\ Known(state, "in_progress") = {}

\* The loop's own counter and the state's agree whenever the loop comes round: at the
\* limit the loop ends before the node could set the phase.
SupervisorNode ==
    /\ IF IterationsOver
          THEN Go("supervisor", "compression") /\ UNCHANGED state
          ELSE IF NothingLeft
          THEN Go("supervisor", "compression") /\ state' = SetPhase(state, "compression")
          ELSE IF pooled
          THEN Go("supervisor", "distribute") /\ UNCHANGED state
          ELSE /\ Go("supervisor", "researcher")
               /\ state' = IncrementIteration(SetPhase(state, "research"))
    /\ UNCHANGED <<pooled, short, batch, task, outcome, report, poolVars>>

\* A second look at the state: workers may have completed tasks meanwhile.
DistributeNode ==
    /\ Go("distribute", "submit")
    /\ batch' = GetPendingTasks(state)
    /\ UNCHANGED <<pooled, short, task, outcome, report, state, poolVars>>

\* DistributeTasks: each Submit may fail and is only logged; no task is marked as in
\* progress, and the researcher node leaves everything to the workers.
SubmitNode ==
    /\ Go("submit", "supervisor")
    /\ \E accepted \in SUBSET batch :
          queued' = [t \in TaskID |-> IF t \in accepted THEN queued[t] + 1 ELSE queued[t]]
    /\ batch' = {}
    /\ state' = IncrementIteration(state)
    /\ UNCHANGED <<pooled, short, task, outcome, report, backoff, sending, wpc, wtask, closed,
                   timedOut, crashed>>

ResearcherNode ==
    /\ IF NextPendingTasks(state) = {}
          THEN Go("researcher", "supervisor") /\ UNCHANGED <<state, task>>
          ELSE \E t \in NextPendingTasks(state) :
                  /\ Go("researcher", "research")
                  /\ task' = t
                  /\ state' = UpdateTask(state, t, "in_progress")
    /\ UNCHANGED <<pooled, short, batch, outcome, report, poolVars>>

\* A failed task ends the whole run.
ExecuteResearch ==
    \/ /\ Go("research", "supervisor")
       /\ state' = AddResult(CompleteTask(state, task), task)
       /\ task' = NoTask
       /\ UNCHANGED <<pooled, short, batch, outcome, report, poolVars>>
    \/ Fail("research") /\ state' = UpdateTask(state, task, "failed")

Pass(from, to, phase) ==
    /\ Go(from, to)
    /\ state' = SetPhase(state, phase)
    /\ UNCHANGED <<pooled, short, batch, task, outcome, report, poolVars>>

CompressionNode      == Pass("compression", "report", "reporting")
ReportGenerationNode == Pass("report", "end", "complete")
EndNode              == Pass("end", "extract", "complete")

Adding(t) == {w \in Worker : wpc[w] = "adding" /\ wtask[w] = t}

\* state.Results is read without the lock: beside a worker that is appending, the old
\* array may be read with the new length.
ExtractReport ==
    /\ Go("extract", Leave)
    /\ outcome' = "report"
    /\ \/ report' = state.results
       \/ /\ \E t \in TaskID : Adding(t) # {}
          /\ report' = Append(state.results, Torn)
    /\ UNCHANGED <<pooled, short, batch, task, state, poolVars>>

-----------------------------------------------------------------------------
(* The deferred Stop of the pool.                                          *)

StopCloses ==
    /\ Go("closing", "waiting")
    /\ closed' = TRUE
    /\ UNCHANGED <<pooled, short, batch, task, outcome, report, state, copyVars, wpc, timedOut,
                   crashed>>

\* Mutant of StopWaits: nothing is waited for.
StopGoesOn ==
    /\ Go("waiting", "stopped")
    /\ UNCHANGED <<pooled, short, batch, task, outcome, report, state, poolVars>>

\* Mutant of StopWaits: the wait has no end of its own.
StopWaitsForEver ==
    /\ Go("waiting", "stopped")
    /\ \A w \in Worker : wpc[w] = "exited"
    /\ UNCHANGED <<pooled, short, batch, task, outcome, report, state, poolVars>>

\* However the wait ends, resultCh is closed next.
StopWaits ==
    /\ Go("waiting", "stopped")
    /\ \/ (\A w \in Worker : wpc[w] = "exited") /\ UNCHANGED timedOut
       \/ timedOut' = TRUE
    /\ UNCHANGED <<pooled, short, batch, task, outcome, report, state, copyVars, wpc, closed,
                   crashed>>

StopReturns ==
    /\ Go("stopped", "done")
    /\ UNCHANGED <<pooled, short, batch, task, outcome, report, state, poolVars>>

ResultsClosed == gpc \in {"stopped", "done"}

Crash ==
    /\ crashed' = TRUE
    /\ UNCHANGED <<graphVars, state, copyVars, wpc, closed, timedOut>>

-----------------------------------------------------------------------------
(* The pool's workers.                                                     *)

Move(w, from, to) == wpc[w] = from /\ wpc' = [wpc EXCEPT ![w] = to]

\* Mutant of Receive: the copy stays in the queue.
ReceiveCopy(w) ==
    /\ Move(w, "select", "executing")
    /\ \E t \in TaskID : queued[t] > 0 /\ wtask' = [wtask EXCEPT ![w] = t]
    /\ UNCHANGED <<graphVars, state, queued, backoff, sending, closed, timedOut, crashed>>

\* Which copy comes first makes no difference to the state.
Receive(w) ==
    /\ Move(w, "select", "executing")
    /\ \E t \in TaskID :
          /\ queued[t] > 0
          /\ wtask' = [wtask EXCEPT ![w] = t]
          /\ queued' = [queued EXCEPT ![t] = @ - 1]
    /\ UNCHANGED <<graphVars, state, backoff, sending, closed, timedOut, crashed>>

\* An error, also the worker's own refusal, leads to a retry.
WorkerFails(w) ==
    /\ Move(w, "executing", "select")
    /\ backoff' = [backoff EXCEPT ![wtask[w]] = @ + 1]
    /\ wtask' = [wtask EXCEPT ![w] = NoTask]
    /\ UNCHANGED <<graphVars, state, queued, sending, closed, timedOut, crashed>>

\* A recovered panic stores nothing, and the pool takes it for a success.
WorkerRecovers(w) ==
    /\ Move(w, "executing", "offering")
    /\ wtask' = [wtask EXCEPT ![w] = NoTask]
    /\ UNCHANGED <<graphVars, state, queued, backoff, sending, closed, timedOut, crashed>>

WorkerCompletes(w) ==
    /\ Move(w, "executing", "adding")
    /\ state' = CompleteTask(state, wtask[w])
    /\ UNCHANGED <<graphVars, copyVars, closed, timedOut, crashed>>

WorkerAddsResult(w) ==
    /\ Move(w, "adding", "offering")
    /\ state' = AddResult(state, wtask[w])
    /\ wtask' = [wtask EXCEPT ![w] = NoTask]
    /\ UNCHANGED <<graphVars, queued, backoff, sending, closed, timedOut, crashed>>

\* The result is offered to resultCh, where nobody takes it.
WorkerOffers(w) ==
    /\ ~ResultsClosed /\ Move(w, "offering", "select")
    /\ UNCHANGED <<graphVars, state, copyVars, closed, timedOut, crashed>>

WorkerPanics(w) == wpc[w] = "offering" /\ ResultsClosed /\ Crash

WorkerLeaves(w) ==
    /\ closed /\ Move(w, "select", "exited")
    /\ UNCHANGED <<graphVars, state, copyVars, closed, timedOut, crashed>>

-----------------------------------------------------------------------------
(* A retry: the backoff is over and Submit is called, which checks that    *)
(* the pool runs, and later sends.  Between the two Stop may close the     *)
(* queue.                                                                  *)

RetryWakes(t) ==
    /\ backoff[t] > 0
    /\ backoff' = [backoff EXCEPT ![t] = @ - 1]
    /\ sending' = IF closed THEN sending ELSE [sending EXCEPT ![t] = @ + 1]
    /\ UNCHANGED <<graphVars, state, queued, wpc, wtask, closed, timedOut, crashed>>

RetrySends(t) ==
    /\ sending[t] > 0 /\ ~closed
    /\ sending' = [sending EXCEPT ![t] = @ - 1]
    /\ queued' = [queued EXCEPT ![t] = @ + 1]
    /\ UNCHANGED <<graphVars, state, backoff, wpc, wtask, closed, timedOut, crashed>>

\* After five seconds without room, or at the end of the task's context.
RetryGivesUp(t) ==
    /\ sending[t] > 0
    /\ sending' = [sending EXCEPT ![t] = @ - 1]
    /\ UNCHANGED <<graphVars, state, queued, backoff, wpc, wtask, closed, timedOut, crashed>>

RetryPanics(t) == sending[t] > 0 /\ closed /\ Crash

-----------------------------------------------------------------------------
GraphStep ==
    /\ ~crashed
    /\ \/ StartNode \/ ClarifyNode \/ PlanningNode
       \/ SupervisorNode \/ DistributeNode \/ SubmitNode \/ ResearcherNode \/ ExecuteResearch
       \/ CompressionNode \/ ReportGenerationNode \/ EndNode \/ ExtractReport
       \/ StopCloses \/ StopWaits \/ StopReturns

WorkerStep(w) ==
    /\ ~crashed
    /\ \/ Receive(w) \/ WorkerFails(w) \/ WorkerRecovers(w) \/ WorkerCompletes(w)
       \/ WorkerAddsResult(w) \/ WorkerOffers(w) \/ WorkerPanics(w) \/ WorkerLeaves(w)

RetryStep(t) ==
    /\ ~crashed
    /\ RetryWakes(t) \/ RetrySends(t) \/ RetryGivesUp(t) \/ RetryPanics(t)

Next == GraphStep \/ (\E w \in Worker : WorkerStep(w)) \/ (\E t \in TaskID : RetryStep(t))

\* Only Execute's own goroutine is relied on: its calls of the model end, at their
\* deadline if not before.  Nothing is assumed of the workers.
Spec == Init /\ [][Next]_vars /\ WF_vars(GraphStep)

-----------------------------------------------------------------------------
(* Properties.                                                             *)

TypeOK ==
    /\ pooled \in BOOLEAN /\ short \in BOOLEAN /\ closed \in BOOLEAN /\ timedOut \in BOOLEAN
    /\ crashed \in BOOLEAN
    /\ gpc \in Node
    /\ IsGraphState(state) /\ state.iterations <= MaxIterations
    /\ batch \subseteq TaskID /\ task \in TaskID \cup {NoTask}
    /\ outcome \in {"none", "report", "error"} /\ report \in Seq(TaskID \cup {Torn})
    /\ queued \in [TaskID -> Nat] /\ backoff \in [TaskID -> Nat] /\ sending \in [TaskID -> Nat]
    /\ wpc \in [Worker -> {"unborn", "select", "executing", "adding", "offering", "exited"}]
    /\ wtask \in [Worker -> TaskID \cup {NoTask}]

\* A finding is written twice, to its task and to the state's results, by two calls
\* with other workers between them: the two records differ by exactly the workers that
\* stand between the calls, and only a completed task has results.
RecordsAgree ==
    \A t \in DOMAIN state.tasks :
        /\ state.tasks[t].results = ResultsFor(state, t) + Cardinality(Adding(t))
        /\ state.tasks[t].results > 0 <=> state.tasks[t].status = "completed"

\* A task is handed out again in every iteration until some copy is done, and every
\* copy may be done: the results of one task, with the copies still on their way, are
\* at most as many as the iterations.
Holding(t) == {w \in Worker : wtask[w] = t}

DuplicatesBounded ==
    \A t \in DOMAIN state.tasks :
        ResultsFor(state, t) + queued[t] + backoff[t] + sending[t] + Cardinality(Holding(t))
            <= MaxIterations

\* When the report is made each planned task has its finding in it, unless the
\* iterations ran out (without a pool they suffice for as many tasks) or a worker has
\* marked the task as completed and not yet added its result.  Of a pooled run whose
\* iterations ran out nothing is said, nor of a report with a torn finding beside.
InReport(t) == \E i \in 1..Len(report) : report[i] = t

ReportComplete ==
    [][ExtractReport =>
          \A t \in DOMAIN state.tasks :
              \/ InReport(t)'
              \/ state.iterations = MaxIterations /\ (pooled \/ Cardinality(TaskID) > MaxIterations)
              \/ Adding(t) # {}]_vars

\* The caller of Execute may keep the state's tasks and results: they no longer change
\* once Execute has returned, unless its Stop gave up waiting for the workers.
QuietAfterReturn == [][gpc = "done" /\ ~timedOut => UNCHANGED state]_vars

\* Execute settles on a report or an error whatever the workers do, and returns it, also
\* when a worker never ends its task: unless the process dies of a channel the deferred
\* Stop has closed, under a retry or under a worker it gave up waiting for.
ExecuteEnds ==
    /\ <>(outcome # "none")
    /\ []~crashed => <>(gpc = "done")
=============================================================================
