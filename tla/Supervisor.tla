----------------------------- MODULE Supervisor -----------------------------
(***************************************************************************)
(* The supervisor of src/pkg/workflow/supervisor.go: it hands pending      *)
(* tasks to the worker pool, keeps a history of every task, and has a      *)
(* progress monitor that counts the load of each worker.  All its methods  *)
(* run under s.mu, so each is one step.                                    *)
(*                                                                         *)
(* The pool is its environment: a Submit succeeds or fails (the supervisor *)
(* only logs a failure), the health monitor may append workers to          *)
(* pool.workers, and every run of an accepted task is reported to          *)
(* HandleTaskCompletion at most once.                                      *)
(***************************************************************************)
EXTENDS Distributors, Functions

CONSTANTS
    StartWorkers,         \* pool.workers after Start
    MaxRetries,           \* s.maxRetries, 3
    ImbalanceThreshold,   \* the literal 3 of imbalanceThreshold
    MaxDistributions,     \* bound: calls of DistributeTasks
    MaxRebalances         \* bound: calls of RebalanceTasks that move a task

ASSUME SupervisorAssumption ==
    /\ StartWorkers \in Seq(Worker) /\ StartWorkers # <<>>
    /\ {MaxRetries, ImbalanceThreshold, MaxDistributions, MaxRebalances} \subseteq Nat

VARIABLES
    workers,        \* pool.workers
    queue,          \* s.taskQueue, as the set of tasks findTaskByID finds
    distributor,    \* s.distributor
    history,        \* s.taskHistory
    tracked,        \* monitor.tasks
    workerLoads,    \* monitor.workerLoads
    inPool,         \* runs of each task the pool has accepted and not reported
    distributions,  \* calls of DistributeTasks so far
    rebalances      \* tasks moved by RebalanceTasks so far

vars == <<workers, queue, distributor, history, tracked, workerLoads, inPool,
          distributions, rebalances>>

TaskStatus == {"pending", "completed", "failed"}   \* nobody reports "in progress"

TaskExecutionHistory == [attempts : Nat, worker : Worker, status : TaskStatus, errors : Nat]
TaskProgress         == [worker : Worker, status : TaskStatus]

Known(f, t) == t \in DOMAIN f
With(f, t, value) == [u \in DOMAIN f \cup {t} |-> IF u = t THEN value ELSE f[u]]

-----------------------------------------------------------------------------
(* DefaultProgressMonitor.                                                 *)

\* Mutant of LoadAfterTrack: a task that is tracked already is not counted again.
LoadAfterFirstTrack(loads, t, w) ==
    IF Known(tracked, t) THEN loads ELSE With(loads, w, IF Known(loads, w) THEN loads[w] + 1 ELSE 1)

\* TrackTask counts the task for w, also when it is tracked and counted already.
LoadAfterTrack(loads, t, w) ==
    With(loads, w, IF Known(loads, w) THEN loads[w] + 1 ELSE 1)

\* TrackTask for one task after the other, t at to[t].
LoadsAfterTracking(tasks, to) ==
    FoldLeft(LAMBDA loads, t : LoadAfterTrack(loads, t, to[t]), workerLoads, tasks)

\* Mutant of LoadAfterEnd: a worker's load may go below zero.
LoadAfterEndUnclamped(loads, t) == [loads EXCEPT ![tracked[t].worker] = @ - 1]

\* A terminal status takes one load from the worker the task is tracked at.
LoadAfterEnd(loads, t) ==
    [loads EXCEPT ![tracked[t].worker] = IF @ > 0 THEN @ - 1 ELSE 0]

TotalTasks     == Cardinality(DOMAIN tracked)
WithStatus(st) == Cardinality({t \in DOMAIN tracked : tracked[t].status = st})
Completed      == WithStatus("completed")
FailedTasks    == WithStatus("failed")
InProgress     == WithStatus("in_progress")

-----------------------------------------------------------------------------
Init ==
    /\ workers = <<>>
    /\ queue = {}
    /\ distributor = NewDistributor("load-balanced")
    /\ history = <<>> /\ tracked = <<>> /\ workerLoads = <<>>
    /\ inPool = [t \in Task |-> 0]
    /\ distributions = 0 /\ rebalances = 0

\* The pool's Start and, later, a restart by its health monitor.
PoolStarts ==
    /\ workers = <<>>
    /\ workers' = StartWorkers
    /\ UNCHANGED <<queue, distributor, history, tracked, workerLoads, inPool,
                   distributions, rebalances>>

PoolRestartsWorker ==
    /\ workers # <<>>
    /\ \E w \in Worker \ ToSet(workers) : workers' = Append(workers, w)
    /\ UNCHANGED <<queue, distributor, history, tracked, workerLoads, inPool,
                   distributions, rebalances>>

\* DistributeTasks for the assignments d.to: TrackTask, a fresh history entry, and
\* Submit, one task after the other.  A task whose Submit fails stays recorded.
Assign(d, accepted) ==
    LET assigned == {t \in Task : d.to[t] # NoWorker} IN
    /\ accepted \subseteq assigned
    /\ distributor' = d.dist
    /\ workerLoads' = LoadsAfterTracking(SetToSeq(assigned), d.to)
    /\ tracked' = [t \in DOMAIN tracked \cup assigned |->
                      IF t \in assigned THEN [worker |-> d.to[t], status |-> "pending"]
                                        ELSE tracked[t]]
    /\ history' = [t \in DOMAIN history \cup assigned |->
                      IF t \in assigned
                         THEN [attempts |-> 0, worker |-> d.to[t], status |-> "pending",
                               errors |-> 0]
                         ELSE history[t]]
    /\ inPool' = [t \in Task |-> IF t \in accepted THEN inPool[t] + 1 ELSE inPool[t]]

\* With no worker the distributor returns an error: the queue has grown, that is all.
DistributeTasks(batch) ==
    /\ distributions < MaxDistributions
    /\ distributions' = distributions + 1
    /\ queue' = queue \cup batch
    /\ IF workers = <<>>
          THEN UNCHANGED <<distributor, history, tracked, workerLoads, inPool>>
          ELSE \E d \in Distribute(distributor, batch, workers) :
                   \E accepted \in SUBSET batch : Assign(d, accepted)
    /\ UNCHANGED <<workers, rebalances>>

-----------------------------------------------------------------------------
Min2(a, b) == IF a < b THEN a ELSE b

\* Mutant of HandleTaskCompletion: a failed task is taken out of the monitor's books
\* only once its retries are used up.
HandleOnlyFinalFailure(t, ok) ==
    /\ inPool[t] > 0
    /\ inPool' = [inPool EXCEPT ![t] = @ - 1]
    /\ Known(history, t)
    /\ history' = [history EXCEPT ![t].status = IF ok THEN "completed" ELSE "failed",
                                  ![t].errors = IF ok THEN @ ELSE @ + 1,
                                  ![t].attempts = IF ok THEN @ ELSE Min2(@ + 1, MaxRetries)]
    /\ IF ok \/ history[t].attempts = MaxRetries
          THEN /\ tracked' = [tracked EXCEPT ![t].status = IF ok THEN "completed" ELSE "failed"]
               /\ workerLoads' = LoadAfterEnd(workerLoads, t)
          ELSE UNCHANGED <<tracked, workerLoads>>
    /\ UNCHANGED <<workers, queue, distributor, distributions, rebalances>>

\* The retry logic only counts: nothing is submitted again.
HandleTaskCompletion(t, ok) ==
    /\ inPool[t] > 0
    /\ inPool' = [inPool EXCEPT ![t] = @ - 1]
    /\ Known(history, t)
    /\ history' = [history EXCEPT ![t].status = IF ok THEN "completed" ELSE "failed",
                                  ![t].errors = IF ok THEN @ ELSE @ + 1,
                                  ![t].attempts = IF ok THEN @ ELSE Min2(@ + 1, MaxRetries)]
    /\ tracked' = [tracked EXCEPT ![t].status = IF ok THEN "completed" ELSE "failed"]
    /\ workerLoads' = LoadAfterEnd(workerLoads, t)
    /\ UNCHANGED <<workers, queue, distributor, distributions, rebalances>>

-----------------------------------------------------------------------------
(* RebalanceTasks.                                                         *)

MaxLoad(loads) == CHOOSE m \in Range(loads) \cup {0} : \A l \in Range(loads) : l <= m

\* Mutant of FoldMin: zero stands for the smallest load, not for "none seen yet".
FoldMinFromZero(min, load) == IF load < min THEN load ELSE min

FoldMin(min, load) == IF min = 0 \/ load < min THEN load ELSE min

\* The least load as the code finds it when it ranges over the workers in this order:
\* zero also means that no load has been seen yet.
MinLoadSeen(loads, order) == FoldLeft(LAMBDA min, w : FoldMin(min, loads[w]), 0, order)

MinLoads(loads) == {MinLoadSeen(loads, order) : order \in SetToSeqs(DOMAIN loads)}

AvgLoad      == TotalTasks \div Cardinality(DOMAIN workerLoads)
Overloaded   == {w \in DOMAIN workerLoads : workerLoads[w] > AvgLoad + 1}
Underloaded  == {w \in DOMAIN workerLoads : workerLoads[w] < AvgLoad}
Movable      == {t \in DOMAIN history \cap queue :
                    history[t].status = "pending" /\ history[t].worker \in Overloaded}

ImbalanceSeen == \E min \in MinLoads(workerLoads) : MaxLoad(workerLoads) - min > ImbalanceThreshold

\* The task leaves its worker's list but not its worker's load: the pending status
\* takes nothing off, and TrackTask counts the task for its new worker.
RebalanceTasks ==
    /\ rebalances < MaxRebalances
    /\ ImbalanceSeen
    /\ Overloaded # {} /\ Underloaded # {} /\ Movable # {}
    /\ \E tasks \in SetToSeqs(Movable), targets \in SetToSeqs(Underloaded) :
          LET To(i) == targets[((i - 1) % Len(targets)) + 1]
              new   == [t \in Movable |-> To(CHOOSE i \in DOMAIN tasks : tasks[i] = t)]
          IN  /\ history' = [t \in DOMAIN history |->
                                IF t \in Movable THEN [history[t] EXCEPT !.worker = new[t]]
                                                 ELSE history[t]]
              /\ tracked' = [t \in DOMAIN tracked |->
                                IF t \in Movable THEN [worker |-> new[t], status |-> "pending"]
                                                 ELSE tracked[t]]
              /\ workerLoads' = LoadsAfterTracking(tasks, new)
              /\ rebalances' = rebalances + 1
    /\ UNCHANGED <<workers, queue, distributor, inPool, distributions>>

-----------------------------------------------------------------------------
\* The new distributor starts from nothing.  With no task both rates are NaN and
\* neither comparison holds.  The second branch asks for tasks in progress.
AdaptStrategy ==
    /\ distributor' =
          IF 5 * FailedTasks > TotalTasks THEN NewDistributor("round-robin")
          ELSE IF 2 * Completed < TotalTasks /\ InProgress > 2 * Len(workers)
                  THEN NewDistributor("cost-based")
                  ELSE distributor
    /\ UNCHANGED <<workers, queue, history, tracked, workerLoads, inPool,
                   distributions, rebalances>>

-----------------------------------------------------------------------------
Next ==
    \/ PoolStarts \/ PoolRestartsWorker
    \/ \E batch \in SUBSET Task : DistributeTasks(batch)
    \/ \E t \in Task, ok \in BOOLEAN : HandleTaskCompletion(t, ok)
    \/ RebalanceTasks \/ AdaptStrategy

Spec == Init /\ [][Next]_vars

-----------------------------------------------------------------------------
(* Properties.                                                             *)

\* Types; a worker's load never goes below zero, however often a task that was
\* tracked at several workers is reported at the last one.
TypeOK ==
    /\ workers \in Seq(Worker)
    /\ queue \subseteq Task
    /\ distributor \in Distributor
    /\ DOMAIN history \subseteq Task /\ history \in [DOMAIN history -> TaskExecutionHistory]
    /\ DOMAIN tracked \subseteq Task /\ tracked \in [DOMAIN tracked -> TaskProgress]
    /\ DOMAIN workerLoads \subseteq Worker /\ workerLoads \in [DOMAIN workerLoads -> Nat]
    /\ inPool \in [Task -> Nat]
    /\ distributions \in 0..MaxDistributions /\ rebalances \in 0..MaxRebalances

\* The supervisor's history and its progress monitor are two books about the same
\* tasks, written by three methods one after the other: they hold the same tasks,
\* at the same worker, with the same status.
BooksAgree ==
    /\ DOMAIN history = DOMAIN tracked
    /\ \A t \in DOMAIN history :
          history[t].worker = tracked[t].worker /\ history[t].status = tracked[t].status

\* The loads never understate the work: together they are at least the runs the pool
\* still owes, although a task is tracked again at every distribution and every move,
\* and each report takes one load from wherever the task is tracked by then.
LoadsCoverWork == SumFunction(workerLoads) >= SumFunction(inPool)

\* RebalanceTasks finds the true least load whenever every worker has some; its zero
\* is ambiguous only when a worker is idle.
MinLoadExactUnlessIdle ==
    0 \notin Range(workerLoads) /\ workerLoads # <<>> =>
        \A min \in MinLoads(workerLoads) :
            min \in Range(workerLoads) /\ \A l \in Range(workerLoads) : min <= l

\* The cost-based distributor, given the supervisor's queue and the pool's workers,
\* never gives a worker more than its capacity, and leaves a task out only when every
\* worker has that many.
CostBasedFillsUp ==
    workers # <<>> =>
        \A d \in CostBased(NewDistributor("cost-based"), SetToSeq(queue), workers) :
            /\ \A w \in Worker : Given(d.to, w) <= Capacity
            /\ (\E t \in queue : d.to[t] = NoWorker) =>
                  \A w \in ToSet(workers) : Given(d.to, w) = Capacity

\* With load balancing, no distribution widens the gap between the most and the least
\* loaded worker of the pool by more than the one task that cannot be split, also
\* after workers have been added.
Gap(loads) ==
    LET ls == {loads[w] : w \in ToSet(workers)} IN
    CHOOSE g \in {a - b : a, b \in ls} : \A a, b \in ls : a - b <= g

DistributionLevels ==
    [][distributor'.strategy = "load-balanced" /\ distributor' # distributor =>
          LET before == Gap(distributor.loads) IN
          Gap(distributor'.loads) <= IF before > 1 THEN before ELSE 1]_vars
=============================================================================
