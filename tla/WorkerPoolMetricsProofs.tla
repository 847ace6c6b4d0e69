---------------------- MODULE WorkerPoolMetricsProofs ----------------------
(***************************************************************************)
(* The counters of the worker pool are exact: theorems about GaugesExact   *)
(* and MetricsConserved of WorkerPool.  Both equate a counter that several *)
(* goroutines add to with the number of jobs or goroutines in some places, *)
(* so the proof counts how each step moves one job or one goroutine.       *)
(* The second part is about the first life of a pool.                      *)
(***************************************************************************)
EXTENDS WorkerPoolProofs

-----------------------------------------------------------------------------
(* Counting.                                                               *)

Count(f, D, S) == Cardinality({x \in D : f[x] \in S})

\* g is f but for the place of d.
Moves(f, g, D, d) == d \in D /\ \A x \in D : x # d => g[x] = f[x]

\* Moving one element d of a finite domain from f[d] to g[d] changes the number of
\* elements with a value in S by at most one.
LEMMA CountMove ==
    ASSUME NEW D, IsFiniteSet(D), NEW f, NEW g, NEW d, Moves(f, g, D, d), NEW S
    PROVE  /\ Count(f, D, S) \in Nat
           /\ f[d] \in S /\ g[d] \notin S => Count(g, D, S) = Count(f, D, S) - 1
           /\ f[d] \notin S /\ g[d] \in S => Count(g, D, S) = Count(f, D, S) + 1
<1> DEFINE F == {x \in D : f[x] \in S}
           G == {x \in D : g[x] \in S}
<1>1. IsFiniteSet(F) /\ Cardinality(F) \in Nat
  BY FS_Subset, FS_CardinalityType
<1>2. CASE f[d] \in S /\ g[d] \notin S
  <2>1. G = F \ {d} /\ d \in F
    BY <1>2 DEF Moves
  <2>. QED BY <1>1, <1>2, <2>1, FS_RemoveElement DEF Count
<1>3. CASE f[d] \notin S /\ g[d] \in S
  <2>1. G = F \cup {d} /\ d \notin F
    BY <1>3 DEF Moves
  <2>. QED BY <1>1, <1>3, <2>1, FS_AddElement DEF Count
<1>. QED BY <1>1, <1>2, <1>3 DEF Count

-----------------------------------------------------------------------------
(* The invariant in terms of counts.                                       *)

Waiting    == Count(sub, Job, {"sending"})
Received   == Count(wpc, Worker, {"received"})
Processing == Count(wpc, Worker, {"processing"})
Alive      == Count(wpc, Worker, {"select"} \cup HoldsTask)
Between    == Count(wpc, Worker, {Counting, "succeeded", "failed"})

Queued    == metrics.tasksQueued
Depth     == metrics.queueDepth
InProcess == metrics.tasksProcessing
Completed == metrics.tasksCompleted
Failed    == metrics.tasksFailed
Workers   == metrics.activeWorkers
Buffered  == Len(taskQueue)
Uncounted == IF uncounted THEN 1 ELSE 0

CountersExact ==
    /\ Depth = Buffered + Waiting + Received
    /\ InProcess = Processing
    /\ Workers = Alive - Uncounted
    /\ Queued = Depth + InProcess + Completed + Failed + Between

LEMMA CountersMean ==
    CountersExact /\ (LockFree => ~uncounted) <=> GaugesExact /\ MetricsConserved
<1>1. Sending = {j \in Job : sub[j] \in {"sending"}}
  BY DEF Sending
<1>. QED
  BY <1>1 DEF CountersExact, Waiting, Received, Processing, Alive, Between, Count,
              GaugesExact, MetricsConserved, At, Active, Uncounted,
              Queued, Depth, InProcess, Completed, Failed, Workers, Buffered

\* Who starts workers holds p.mu until the last of them is counted.
SpawnerHoldsLock ==
    /\ uncounted \/ births > 0 => spawner # "nobody"
    /\ spawner # "nobody" => stop = "idle"

LEMMA SpawnerStep == TypeOK /\ SpawnerHoldsLock /\ [Next]_vars => SpawnerHoldsLock'
<1> SUFFICES ASSUME TypeOK, SpawnerHoldsLock, [Next]_vars PROVE SpawnerHoldsLock'
  OBVIOUS
<1> USE DEF SpawnerHoldsLock
<1>1. ASSUME UNCHANGED <<stop, spawner, births, uncounted>> PROVE SpawnerHoldsLock'
  BY <1>1
<1>2. CASE Start
  BY <1>2 DEF Start, LockFree, stopVars
<1>3. CASE SpawnStep
  BY <1>3, ConstantTypes
     DEF SpawnStep, SpawnWorker, CountWorker, SpawnDone, stopVars, TypeOK
<1>4. ASSUME NEW g \in 1..MaxStarts, CheckHealth(g) \/ RestartWorkers(g)
      PROVE  SpawnerHoldsLock'
  BY <1>1, <1>4 DEF CheckHealth, RestartWorkers, LockFree, lifeVars, stopVars, spawnVars
<1>5. CASE StopBegin \/ StopStep
  BY <1>5
     DEF StopBegin, StopStep, StopCancel, StopCloseQueue, StopPanic, StopDrained,
         StopTimeout, StopCloseResults, StopCloseErrors, CloseOutput, Panic, LockFree,
         lifeVars, stopVars, spawnVars
<1>6. ASSUME NEW j \in Job, SubmitCheck(j) \/ SubmitCount(j) \/ SubmitReturn(j)
      PROVE  SpawnerHoldsLock'
  BY <1>1, <1>6
     DEF SubmitCheck, SubmitCount, SubmitReturn, SubmitSend, SubmitPanic, SubmitGiveUp,
         Panic, lifeVars, stopVars, spawnVars
<1>7. ASSUME NEW w \in Worker, WorkerStep(w) PROVE SpawnerHoldsLock'
  BY <1>1, <1>7
     DEF WorkerStep, Receive, CountDequeue, BeginTask, EndTask, CompleteTask, FailTask,
         ExitLoop, Exited, WorkerPanic, Panic, lifeVars, stopVars, spawnVars
<1>8. ASSUME NEW c \in Channel, Take(c) PROVE SpawnerHoldsLock'
  BY <1>1, <1>8 DEF Take, lifeVars, stopVars, spawnVars
<1>9. CASE UNCHANGED vars
  BY <1>1, <1>9 DEF vars, lifeVars, stopVars, spawnVars
<1>. QED
  BY <1>2, <1>3, <1>4, <1>5, <1>6, <1>7, <1>8, <1>9 DEF Next

\* The counts are natural numbers in every state of the right type.
LEMMA CountTypes ==
    /\ Waiting \in Nat /\ Received \in Nat /\ Processing \in Nat
    /\ Alive \in Nat /\ Between \in Nat
<1>1. \A f, S : Count(f, Job, S) \in Nat /\ Count(f, Worker, S) \in Nat
  BY FS_Subset, FS_CardinalityType, PoolAssumption DEF Count
<1>. QED BY <1>1 DEF Waiting, Received, Processing, Alive, Between

-----------------------------------------------------------------------------
(* What each kind of step does to the counts.                              *)

\* What moving from a place r to a place s adds to the number in S.
Gain(r, s, S) == (IF s \in S THEN 1 ELSE 0) - (IF r \in S THEN 1 ELSE 0)

LEMMA CountGain ==
    ASSUME NEW D, IsFiniteSet(D), NEW f, NEW g, NEW d, Moves(f, g, D, d), NEW S
    PROVE  Count(g, D, S) = Count(f, D, S) + Gain(f[d], g[d], S)
<1>1. Count(f, D, S) \in Nat
  BY CountMove
<1>2. ASSUME f[d] \in S <=> g[d] \in S
      PROVE  Count(g, D, S) = Count(f, D, S) + Gain(f[d], g[d], S)
  <2>1. {x \in D : f[x] \in S} = {x \in D : g[x] \in S}
    BY <1>2 DEF Moves
  <2>2. Count(g, D, S) = Count(f, D, S)
    BY <2>1 DEF Count
  <2>. QED BY <1>1, <1>2, <2>2 DEF Gain
<1>3. CASE f[d] \in S /\ g[d] \notin S
  <2>1. Count(g, D, S) = Count(f, D, S) - 1
    BY <1>3, CountMove
  <2>. QED BY <1>1, <1>3, <2>1 DEF Gain
<1>4. CASE f[d] \notin S /\ g[d] \in S
  <2>1. Count(g, D, S) = Count(f, D, S) + 1
    BY <1>4, CountMove
  <2>. QED BY <1>1, <1>4, <2>1 DEF Gain
<1>. QED BY <1>2, <1>3, <1>4

\* What moving a worker from r to s adds to Received, Processing, Alive and Between.
Gains(r, s, a, b, c, d) ==
    /\ Gain(r, s, {"received"}) = a
    /\ Gain(r, s, {"processing"}) = b
    /\ Gain(r, s, {"select"} \cup HoldsTask) = c
    /\ Gain(r, s, {Counting, "succeeded", "failed"}) = d

Ending == {"succeeded", "failed"}

LEMMA GainTable ==
    /\ Gains("select", "received", 1, 0, 0, 0)
    /\ Gains("received", Counting, -1, 0, 0, 1)
    /\ Gains(Counting, "processing", 0, 1, 0, -1)
    /\ \A s \in Ending : Gains("processing", s, 0, -1, 0, 1)
    /\ \A r \in Ending : Gains(r, "select", 0, 0, 0, -1)
    /\ Gains("select", "leaving", 0, 0, -1, 0)
    /\ Gains("leaving", "unborn", 0, 0, 0, 0)
    /\ Gains("unborn", "select", 0, 0, 1, 0)
BY DEF Gains, Gain, Ending, HoldsTask, Counting

CountsAdd(a, b, c, d) ==
    /\ Received' = Received + a /\ Processing' = Processing + b
    /\ Alive' = Alive + c /\ Between' = Between + d

\* A worker moves to state s.
LEMMA WorkerMove ==
    ASSUME TypeOK, NEW w \in Worker, NEW s, Move(w, s),
           NEW a \in Int, NEW b \in Int, NEW c \in Int, NEW d \in Int,
           Gains(wpc[w], s, a, b, c, d)
    PROVE  CountsAdd(a, b, c, d)
<1>1. wpc'[w] = s /\ Moves(wpc, wpc', Worker, w)
  BY DEF Move, Moves, TypeOK
<1>2. ASSUME NEW S
      PROVE  Count(wpc', Worker, S) = Count(wpc, Worker, S) + Gain(wpc[w], wpc'[w], S)
  BY <1>1, CountGain, PoolAssumption
<1>. QED BY <1>1, <1>2 DEF Received, Processing, Alive, Between, Gains, CountsAdd

\* A job's Submit call moves to state s.
Goes(j, s) == sub' = [sub EXCEPT ![j] = s]

LEMMA JobMove ==
    ASSUME TypeOK, NEW j \in Job, NEW s, Goes(j, s)
    PROVE  Waiting' = Waiting + Gain(sub[j], s, {"sending"})
<1>1. sub'[j] = s /\ Moves(sub, sub', Job, j)
  BY DEF Goes, Moves, TypeOK
<1>2. ASSUME NEW S
      PROVE  Count(sub', Job, S) = Count(sub, Job, S) + Gain(sub[j], sub'[j], S)
  BY <1>1, CountGain, PoolAssumption
<1>. QED BY <1>1, <1>2 DEF Waiting

-----------------------------------------------------------------------------
(* The inductive step.                                                     *)

\* What a step adds to each counter.
CountersAdd(queued, depth, processing, completed, failed, active) ==
    /\ Queued' = Queued + queued /\ Depth' = Depth + depth
    /\ InProcess' = InProcess + processing /\ Completed' = Completed + completed
    /\ Failed' = Failed + failed /\ Workers' = Workers + active

CountersSame ==
    /\ Queued' = Queued /\ Depth' = Depth /\ InProcess' = InProcess
    /\ Completed' = Completed /\ Failed' = Failed /\ Workers' = Workers

LEMMA WorkerCounters ==
    ASSUME metrics \in WorkerPoolMetrics, NEW w \in Worker
    PROVE  /\ CountDequeue(w) => CountersAdd(0, -1, 0, 0, 0, 0)
           /\ BeginTask(w)    => CountersAdd(0, 0, 1, 0, 0, 0)
           /\ EndTask(w)      => CountersAdd(0, 0, -1, 0, 0, 0)
           /\ CompleteTask(w) => CountersAdd(0, 0, 0, 1, 0, 0)
           /\ FailTask(w)     => CountersAdd(0, 0, 0, 0, 1, 0)
           /\ ExitLoop(w)     => CountersAdd(0, 0, 0, 0, 0, -1)
<1> USE DEF WorkerPoolMetrics, CountersAdd,
            Queued, Depth, InProcess, Completed, Failed, Workers
<1>1. CountDequeue(w) => CountersAdd(0, -1, 0, 0, 0, 0)
  BY DEF CountDequeue
<1>2. BeginTask(w) => CountersAdd(0, 0, 1, 0, 0, 0)
  BY DEF BeginTask
<1>3. EndTask(w) => CountersAdd(0, 0, -1, 0, 0, 0)
  BY DEF EndTask
<1>4. CompleteTask(w) => CountersAdd(0, 0, 0, 1, 0, 0)
  BY DEF CompleteTask
<1>5. FailTask(w) => CountersAdd(0, 0, 0, 0, 1, 0)
  BY DEF FailTask
<1>6. ExitLoop(w) => CountersAdd(0, 0, 0, 0, 0, -1)
  BY DEF ExitLoop
<1>. QED BY <1>1, <1>2, <1>3, <1>4, <1>5, <1>6

CounterValues ==
    /\ Queued \in Int /\ Depth \in Int /\ InProcess \in Int
    /\ Completed \in Int /\ Failed \in Int /\ Workers \in Int
    /\ Buffered \in Nat

LEMMA CounterValuesType == TypeOK => CounterValues
BY LenProperties
   DEF TypeOK, WorkerPoolMetrics, CounterValues,
       Queued, Depth, InProcess, Completed, Failed, Workers, Buffered

\* A goroutine of runWorker moves and changes at most one counter.
LEMMA CountersWorker ==
    ASSUME TypeOK, OneHolder, CountersExact, NEW w \in Worker, WorkerStep(w)
    PROVE  CountersExact'
<1>a. Uncounted \in Int /\ UNCHANGED uncounted
  BY DEF Uncounted, WorkerStep, Receive, CountDequeue, BeginTask, EndTask, CompleteTask,
         FailTask, ExitLoop, Exited, WorkerPanic, Panic, lifeVars, spawnVars
<1>b. UNCHANGED Uncounted
  BY <1>a DEF Uncounted
<1>c. CounterValues /\ metrics \in WorkerPoolMetrics
  BY CounterValuesType DEF TypeOK
<1> USE CountTypes DEF CountersExact, CountersAdd, CountsAdd, CounterValues, CountersSame
<1>0. /\ CounterValues /\ metrics \in WorkerPoolMetrics
      /\ Uncounted \in Int /\ Uncounted' = Uncounted
  BY <1>a, <1>b, <1>c
<1>1. CASE Receive(w)
  <2>1. wpc[w] = "select" /\ Move(w, "received")
    BY <1>1 DEF Receive
  <2>2. CountsAdd(1, 0, 0, 0)
    BY <2>1, WorkerMove, GainTable
  <2>3. Buffered' = Buffered - 1
    BY <1>1, QueueReceive DEF Receive, Buffered
  <2>4. Waiting' = Waiting /\ CountersSame
    BY <1>1 DEF Receive, Waiting, jobVars, CountersSame,
                Queued, Depth, InProcess, Completed, Failed, Workers
  <2>. QED BY <1>0, <2>2, <2>3, <2>4
<1>2. CASE CountDequeue(w)
  <2>1. /\ wpc[w] = "received" /\ Move(w, Counting)
        /\ Waiting' = Waiting /\ Buffered' = Buffered
    BY <1>2 DEF CountDequeue, Waiting, Buffered, jobVars
  <2>2. CountsAdd(-1, 0, 0, 1)
    BY <2>1, WorkerMove, GainTable
  <2>3. CountersAdd(0, -1, 0, 0, 0, 0)
    BY <1>0, <1>2, WorkerCounters
  <2>. QED BY <1>0, <2>1, <2>2, <2>3
<1>3. CASE BeginTask(w)
  <2>1. /\ wpc[w] = Counting /\ Move(w, "processing")
        /\ Waiting' = Waiting /\ Buffered' = Buffered
    BY <1>3 DEF BeginTask, Waiting, Buffered, jobVars
  <2>2. CountsAdd(0, 1, 0, -1)
    BY <2>1, WorkerMove, GainTable
  <2>3. CountersAdd(0, 0, 1, 0, 0, 0)
    BY <1>0, <1>3, WorkerCounters
  <2>. QED BY <1>0, <2>1, <2>2, <2>3
<1>4. CASE EndTask(w)
  <2>1. wpc[w] = "processing" /\ Waiting' = Waiting /\ Buffered' = Buffered
    BY <1>4 DEF EndTask, Waiting, Buffered, jobVars
  <2>2. PICK s \in Ending : Move(w, s)
    BY <1>4 DEF EndTask, Ending
  <2>3. Gains(wpc[w], s, 0, -1, 0, 1)
    BY <2>1, GainTable
  <2>4. CountsAdd(0, -1, 0, 1)
    BY <2>2, <2>3, WorkerMove
  <2>5. CountersAdd(0, 0, -1, 0, 0, 0)
    BY <1>0, <1>4, WorkerCounters
  <2>. QED BY <1>0, <2>1, <2>4, <2>5
<1>5. ASSUME wpc[w] \in Ending, Move(w, "select"),
             NEW s, s # "sending", Goes(wjob[w], s), Buffered' = Buffered,
             CountersAdd(0, 0, 0, 1, 0, 0) \/ CountersAdd(0, 0, 0, 0, 1, 0)
      PROVE  CountersExact'
  <2>1. Gains(wpc[w], "select", 0, 0, 0, -1)
    BY <1>5, GainTable
  <2>2. CountsAdd(0, 0, 0, -1)
    <3>1. Move(w, "select")
      BY <1>5
    <3> HIDE <1>5
    <3>. QED BY <2>1, <3>1, WorkerMove
  <2>3. wjob[w] \in Job /\ sub[wjob[w]] # "sending"
    BY <1>5, JobTypes DEF OneHolder, HoldsTask, Ending
  <2>4. Gain(sub[wjob[w]], s, {"sending"}) = 0
    BY <1>5, <2>3 DEF Gain
  <2>5. Waiting' = Waiting
    BY <1>5, <2>3, <2>4, JobMove
  <2>. QED BY <1>0, <1>5, <2>2, <2>5
<1>6. CASE CompleteTask(w)
  <2>1. /\ wpc[w] \in Ending /\ Move(w, "select")
        /\ Goes(wjob[w], "completed") /\ Buffered' = Buffered
    BY <1>6 DEF CompleteTask, Goes, Ending, Buffered
  <2>2. CountersAdd(0, 0, 0, 1, 0, 0)
    BY <1>0, <1>6, WorkerCounters
  <2>. QED BY <2>1, <2>2, <1>5
<1>7. CASE FailTask(w)
  <2> DEFINE s == IF retries[wjob[w]] < MaxRetries THEN "backoff" ELSE "failed"
  <2>1. /\ wpc[w] \in Ending /\ Move(w, "select")
        /\ Goes(wjob[w], s) /\ Buffered' = Buffered
    BY <1>7 DEF FailTask, Goes, Ending, Buffered
  <2>2. CountersAdd(0, 0, 0, 0, 1, 0)
    BY <1>0, <1>7, WorkerCounters
  <2>3. s # "sending"
    OBVIOUS
  <2> HIDE DEF s
  <2>. QED BY <2>1, <2>2, <2>3, <1>5
<1>8. CASE ExitLoop(w)
  <2>1. /\ wpc[w] = "select" /\ Move(w, "leaving")
        /\ Waiting' = Waiting /\ Buffered' = Buffered
    BY <1>8 DEF ExitLoop, Waiting, Buffered, jobVars
  <2>2. CountsAdd(0, 0, -1, 0)
    BY <2>1, WorkerMove, GainTable
  <2>3. CountersAdd(0, 0, 0, 0, 0, -1)
    BY <1>0, <1>8, WorkerCounters
  <2>. QED BY <1>0, <2>1, <2>2, <2>3
<1>9. CASE Exited(w)
  <2>1. /\ wpc[w] = "leaving" /\ Move(w, "unborn")
        /\ Waiting' = Waiting /\ Buffered' = Buffered /\ CountersSame
    BY <1>9 DEF Exited, Waiting, jobVars, CountersSame, Buffered,
                Queued, Depth, InProcess, Completed, Failed, Workers
  <2>2. CountsAdd(0, 0, 0, 0)
    BY <2>1, WorkerMove, GainTable
  <2>. QED BY <1>0, <2>1, <2>2
<1>10. CASE WorkerPanic(w)
  BY <1>0, <1>10
     DEF WorkerPanic, Panic, jobVars, workerVars,
         Waiting, Received, Processing, Alive, Between,
         Queued, Depth, InProcess, Completed, Failed, Workers, Buffered
<1>. QED
  BY <1>1, <1>2, <1>3, <1>4, <1>6, <1>7, <1>8, <1>9, <1>10 DEF WorkerStep

\* Adding d to tasksQueued and queueDepth leaves the other counters alone.
BothAdd(d) ==
    metrics' = [metrics EXCEPT !.tasksQueued = metrics.tasksQueued + d,
                               !.queueDepth = metrics.queueDepth + d]

LEMMA BothCounters ==
    ASSUME TypeOK, NEW d \in Int, BothAdd(d)
    PROVE  CountersAdd(d, d, 0, 0, 0, 0)
<1> DEFINE queued == [metrics EXCEPT !.tasksQueued = metrics.tasksQueued + d]
<1>0. metrics \in WorkerPoolMetrics
  BY DEF TypeOK
<1>1. /\ queued \in WorkerPoolMetrics
      /\ queued.tasksQueued = metrics.tasksQueued + d
      /\ queued.queueDepth = metrics.queueDepth
      /\ queued.tasksProcessing = metrics.tasksProcessing
      /\ queued.activeWorkers = metrics.activeWorkers
      /\ queued.tasksCompleted = metrics.tasksCompleted
      /\ queued.tasksFailed = metrics.tasksFailed
  BY <1>0 DEF WorkerPoolMetrics
<1>2. metrics' = [queued EXCEPT !.queueDepth = queued.queueDepth + d]
  BY <1>1 DEF BothAdd
<1> HIDE DEF queued
<1>. QED
  BY <1>1, <1>2
     DEF WorkerPoolMetrics, CountersAdd,
         Queued, Depth, InProcess, Completed, Failed, Workers

\* A call of Submit moves its job and counts it in or out of tasksQueued and
\* queueDepth together; sending moves it from the submitters to the queue.
LEMMA CountersSubmit ==
    ASSUME TypeOK, OneHolder, CountersExact, NEW j \in Job,
           SubmitCheck(j) \/ SubmitCount(j) \/ SubmitReturn(j)
    PROVE  CountersExact'
<1> USE CountTypes DEF CountersExact, CounterValues, CountersSame
<1>0. CounterValues /\ Uncounted \in Int
  BY CounterValuesType DEF Uncounted
<1>1. /\ Received' = Received /\ Processing' = Processing
      /\ Alive' = Alive /\ Between' = Between /\ Uncounted' = Uncounted
  BY DEF SubmitCheck, SubmitCount, SubmitReturn, SubmitSend, SubmitPanic, SubmitGiveUp,
         Panic, workerVars, lifeVars, spawnVars,
         Received, Processing, Alive, Between, Uncounted
<1>2. CASE SubmitCheck(j)
  <2> DEFINE s == IF running THEN "checked" ELSE "rejected"
  <2>1. s # "sending" /\ sub[j] # "sending" /\ Goes(j, s)
    BY <1>2 DEF SubmitCheck, Goes
  <2>2. Buffered' = Buffered /\ CountersSame
    BY <1>2 DEF SubmitCheck, Buffered, CountersSame,
                Queued, Depth, InProcess, Completed, Failed, Workers
  <2> HIDE DEF s
  <2>3. Waiting' = Waiting
    BY <2>1, JobMove DEF Gain
  <2>. QED BY <1>0, <1>1, <2>2, <2>3
<1>3. CASE SubmitCount(j)
  <2>1. sub[j] = "checked" /\ Goes(j, "sending") /\ Buffered' = Buffered
    BY <1>3 DEF SubmitCount, Goes, Buffered
  <2>2. Waiting' = Waiting + 1
    BY <2>1, JobMove DEF Gain
  <2>3. BothAdd(1)
    BY <1>3 DEF SubmitCount, BothAdd
  <2>4. CountersAdd(1, 1, 0, 0, 0, 0)
    BY <2>3, BothCounters
  <2>. QED BY <1>0, <1>1, <2>1, <2>2, <2>4 DEF CountersAdd
<1>4. CASE SubmitSend(j)
  <2>1. /\ sub[j] = "sending" /\ Goes(j, "accepted") /\ CountersSame
        /\ Buffered' = Buffered + 1
    BY <1>4, QueueSend DEF SubmitSend, Goes, Buffered, CountersSame,
                           Queued, Depth, InProcess, Completed, Failed, Workers
  <2>2. Waiting' = Waiting - 1
    <3>1. Waiting' = Waiting + Gain("sending", "accepted", {"sending"})
      BY <2>1, JobMove
    <3>2. Gain("sending", "accepted", {"sending"}) = -1
      BY DEF Gain
    <3>. QED BY <3>1, <3>2
  <2>. QED BY <1>0, <1>1, <2>1, <2>2
<1>5. CASE SubmitPanic(j)
  BY <1>1, <1>5
     DEF SubmitPanic, Panic, jobVars, Waiting,
         Queued, Depth, InProcess, Completed, Failed, Workers, Buffered
<1>6. CASE SubmitGiveUp(j)
  <2>1. sub[j] = "sending" /\ Goes(j, "rejected") /\ Buffered' = Buffered
    BY <1>6 DEF SubmitGiveUp, Goes, Buffered
  <2>2. Waiting' = Waiting - 1
    <3>1. Waiting' = Waiting + Gain("sending", "rejected", {"sending"})
      BY <2>1, JobMove
    <3>2. Gain("sending", "rejected", {"sending"}) = -1
      BY DEF Gain
    <3>. QED BY <3>1, <3>2
  <2>3. BothAdd(-1)
    BY <1>0, <1>6 DEF SubmitGiveUp, RolledBack, BothAdd
  <2>4. CountersAdd(-1, -1, 0, 0, 0, 0)
    BY <2>3, BothCounters
  <2>. QED BY <1>0, <1>1, <2>1, <2>2, <2>4 DEF CountersAdd
<1>. QED
  BY <1>2, <1>3, <1>4, <1>5, <1>6 DEF SubmitReturn

\* A worker is born first and counted next.
LEMMA CountersSpawn ==
    ASSUME TypeOK, CountersExact, SpawnStep
    PROVE  CountersExact'
<1>0. CounterValues /\ metrics \in WorkerPoolMetrics
  BY CounterValuesType DEF TypeOK
<1>1. Waiting' = Waiting /\ Buffered' = Buffered
  BY DEF SpawnStep, SpawnWorker, CountWorker, SpawnDone, jobVars, Waiting, Buffered
<1>2. CASE SpawnWorker
  <2>1. PICK w \in Worker : wpc[w] = "unborn" /\ Move(w, "select")
    BY <1>2 DEF SpawnWorker, Unborn, At, Move
  <2>2. CountsAdd(0, 0, 1, 0)
    BY <2>1, WorkerMove, GainTable
  <2>3. CountersSame /\ Uncounted = 0 /\ Uncounted' = 1
    BY <1>2 DEF SpawnWorker, Uncounted, CountersSame,
                Queued, Depth, InProcess, Completed, Failed, Workers
  <2>. QED
    BY <1>0, <1>1, <2>2, <2>3, CountTypes
       DEF CountersExact, CountsAdd, CountersSame, CounterValues
<1>3. CASE CountWorker
  <2>1. CountersAdd(0, 0, 0, 0, 0, 1)
    BY <1>0, <1>3
       DEF CountWorker, WorkerPoolMetrics, CountersAdd,
           Queued, Depth, InProcess, Completed, Failed, Workers
  <2>2. /\ Received' = Received /\ Processing' = Processing
        /\ Alive' = Alive /\ Between' = Between
    BY <1>3 DEF CountWorker, workerVars, Received, Processing, Alive, Between
  <2>3. Uncounted = 1 /\ Uncounted' = 0
    BY <1>3 DEF CountWorker, Uncounted
  <2>. QED
    BY <1>0, <1>1, <2>1, <2>2, <2>3, CountTypes
       DEF CountersExact, CountersAdd, CounterValues
<1>4. CASE SpawnDone
  BY <1>1, <1>4
     DEF SpawnDone, workerVars, CountersExact, Received, Processing, Alive, Between,
         Uncounted, Queued, Depth, InProcess, Completed, Failed, Workers
<1>. QED BY <1>2, <1>3, <1>4 DEF SpawnStep

LEMMA CountersStep == TypeOK /\ OneHolder /\ CountersExact /\ [Next]_vars => CountersExact'
<1> SUFFICES ASSUME TypeOK, OneHolder, CountersExact, [Next]_vars PROVE CountersExact'
  OBVIOUS
<1> USE DEF lifeVars, spawnVars
<1>2. ASSUME UNCHANGED <<taskQueue, sub, wpc, metrics, uncounted>> PROVE CountersExact'
  BY <1>2
     DEF CountersExact, Waiting, Received, Processing, Alive, Between, Uncounted,
         Queued, Depth, InProcess, Completed, Failed, Workers, Buffered
<1>3. CASE Start
  BY <1>3, <1>2 DEF Start, jobVars, workerVars
<1>4. ASSUME NEW g \in 1..MaxStarts, CheckHealth(g) \/ RestartWorkers(g)
      PROVE  CountersExact'
  BY <1>4, <1>2 DEF CheckHealth, RestartWorkers, jobVars, workerVars
<1>5. CASE StopBegin \/ StopStep
  BY <1>5, <1>2
     DEF StopBegin, StopStep, StopCancel, StopCloseQueue, StopPanic, StopDrained,
         StopTimeout, StopCloseResults, StopCloseErrors, CloseOutput, Panic,
         jobVars, workerVars
<1>6. ASSUME NEW c \in Channel, Take(c) PROVE CountersExact'
  BY <1>6, <1>2 DEF Take, jobVars, workerVars
<1>7. CASE UNCHANGED vars
  BY <1>7, <1>2 DEF vars, jobVars, workerVars
<1>. QED
  BY <1>3, <1>4, <1>5, <1>6, <1>7, CountersSpawn, CountersSubmit, CountersWorker DEF Next

\* The gauges are exact and tasksQueued is conserved in every reachable state, for any
\* number of jobs, workers, lives and restarts and any queue size.  activeWorkers alone
\* may be one short, between the start of a worker and its count, when only a reader
\* that does not hold p.mu can see it.
THEOREM CountersCorrect == Spec => [](GaugesExact /\ MetricsConserved)
<1>1. Init => CountersExact
  <2> SUFFICES ASSUME Init PROVE CountersExact
    OBVIOUS
  <2>1. \A S : "unborn" \notin S => Count(wpc, Worker, S) = 0
    <3> SUFFICES ASSUME NEW S, "unborn" \notin S PROVE Count(wpc, Worker, S) = 0
      OBVIOUS
    <3>1. {w \in Worker : wpc[w] \in S} = {}
      BY DEF Init
    <3>. QED BY <3>1, FS_EmptySet DEF Count
  <2>2. Received = 0 /\ Processing = 0 /\ Alive = 0 /\ Between = 0
    BY <2>1 DEF Received, Processing, Alive, Between, HoldsTask, Counting
  <2>3. Waiting = 0
    <3>1. {j \in Job : sub[j] \in {"sending"}} = {}
      BY DEF Init
    <3>. QED BY <3>1, FS_EmptySet DEF Waiting, Count
  <2>4. Buffered = 0 /\ Queued = 0 /\ Depth = 0 /\ InProcess = 0
        /\ Completed = 0 /\ Failed = 0 /\ Workers = 0
    BY EmptySeq
       DEF Init, Queued, Depth, InProcess, Completed, Failed, Workers, Buffered
  <2>5. Uncounted = 0
    BY DEF Init, Uncounted
  <2>. QED BY <2>2, <2>3, <2>4, <2>5 DEF CountersExact
<1>2. Init => SpawnerHoldsLock
  BY DEF Init, SpawnerHoldsLock
<1>3. SpawnerHoldsLock => (LockFree => ~uncounted)
  BY DEF SpawnerHoldsLock, LockFree
<1>. QED
  BY <1>1, <1>2, <1>3, CountersStep, SpawnerStep, CountersMean, TypeCorrect,
     TasksHaveOneHolder, PTL
     DEF Spec

\* Every task counted in tasksQueued is in exactly one of the places the other counters
\* stand for.
THEOREM MetricsAddUp == Spec => []MetricsConserved
BY CountersCorrect, PTL

-----------------------------------------------------------------------------
(* Results are dropped only for want of room.                              *)

Stored == out["resultCh"].held

\* The buffer never holds more results than tasks have completed.
DropsInv ==
    /\ Stored <= Completed
    /\ dropped => Completed > QueueSize

\* What a non-blocking send on resultCh does to the buffer.
LEMMA OfferStores ==
    ASSUME TypeOK, Offer("resultCh")
    PROVE  /\ Stored < QueueSize => Stored' = Stored + 1 /\ out' # out
           /\ Stored >= QueueSize => out' = out
<1>1. Stored \in Nat
  BY DEF TypeOK, OutputChannel, Channel, Stored
<1>2. ASSUME Stored < QueueSize PROVE Stored' = Stored + 1 /\ out' # out
  <2>1. out' = [out EXCEPT !["resultCh"].held = Stored + 1]
    BY <1>2 DEF Offer, Stored
  <2>2. Stored' = Stored + 1
    BY <2>1 DEF Stored, TypeOK, OutputChannel, Channel
  <2>3. Stored' # Stored
    BY <1>1, <2>2
  <2>. QED BY <2>2, <2>3 DEF Stored
<1>3. ASSUME Stored >= QueueSize PROVE out' = out
  BY <1>1, <1>3, ConstantTypes DEF Offer, Stored
<1>. QED BY <1>2, <1>3

LEMMA DropsStep == TypeOK /\ DropsInv /\ [Next]_vars => DropsInv'
<1> SUFFICES ASSUME TypeOK, DropsInv, [Next]_vars PROVE DropsInv'
  OBVIOUS
<1>0. /\ CounterValues /\ QueueSize \in Nat /\ Stored \in Nat
  BY CounterValuesType, ConstantTypes DEF TypeOK, OutputChannel, Channel, Stored
<1>1. ASSUME Completed' = Completed, dropped' = dropped, Stored' <= Stored, Stored' \in Nat
      PROVE  DropsInv'
  BY <1>0, <1>1 DEF DropsInv, CounterValues
<1>2. ASSUME Completed' = Completed, UNCHANGED <<out, dropped>> PROVE DropsInv'
  BY <1>0, <1>1, <1>2 DEF Stored
<1>3. ASSUME UNCHANGED <<metrics, out, dropped>> PROVE DropsInv'
  BY <1>2, <1>3 DEF Completed
<1>4. ASSUME NEW w \in Worker, CompleteTask(w) PROVE DropsInv'
  <2>1. Completed' = Completed + 1
    BY <1>4, WorkerCounters DEF CountersAdd, TypeOK
  <2>2. Offer("resultCh") /\ dropped' = (dropped \/ out' = out)
    BY <1>4 DEF CompleteTask
  <2>4. CASE Stored < QueueSize
    <3>1. Stored' = Stored + 1 /\ out' # out
      BY <2>2, <2>4, OfferStores
    <3>2. dropped' = dropped
      BY <2>2, <3>1 DEF TypeOK
    <3>. QED BY <1>0, <2>1, <3>1, <3>2 DEF DropsInv, CounterValues
  <2>5. CASE Stored >= QueueSize
    <3>1. out' = out /\ Stored' = Stored
      BY <2>2, <2>5, OfferStores DEF Stored
    <3>2. Completed' > QueueSize
      BY <1>0, <2>1, <2>5 DEF DropsInv, CounterValues
    <3>. QED BY <1>0, <2>1, <3>1, <3>2 DEF DropsInv, CounterValues
  <2>. QED BY <1>0, <2>4, <2>5
<1>5. ASSUME NEW w \in Worker, FailTask(w) PROVE DropsInv'
  <2>0. CountersAdd(0, 0, 0, 0, 1, 0)
    BY <1>5, WorkerCounters DEF TypeOK
  <2>1. Completed' = Completed /\ dropped' = dropped
    <3>1. dropped' = dropped
      BY <1>5 DEF FailTask
    <3>. QED BY <1>0, <2>0, <3>1 DEF CountersAdd, CounterValues
  <2>2. \/ UNCHANGED out
        \/ out' = [out EXCEPT !["errorCh"].held = @ + 1]
    BY <1>5 DEF FailTask, Offer
  <2>3. Stored' = Stored
    BY <2>2 DEF Stored, TypeOK, Channel
  <2>. QED BY <1>0, <1>1, <2>1, <2>3
<1>6. ASSUME NEW w \in Worker, WorkerStep(w) PROVE DropsInv'
  <2>1. CASE CountDequeue(w) \/ BeginTask(w) \/ EndTask(w) \/ ExitLoop(w)
    <3>1. Completed' = Completed
      BY <1>0, <2>1, WorkerCounters DEF CountersAdd, TypeOK, CounterValues
    <3>. QED BY <1>2, <2>1, <3>1 DEF CountDequeue, BeginTask, EndTask, ExitLoop, outVars
  <2>2. CASE Receive(w) \/ Exited(w) \/ WorkerPanic(w)
    BY <1>3, <2>2 DEF Receive, Exited, WorkerPanic, Panic, outVars
  <2>. QED BY <1>4, <1>5, <1>6, <2>1, <2>2 DEF WorkerStep
<1>7. ASSUME NEW j \in Job, SubmitCheck(j) \/ SubmitCount(j) \/ SubmitReturn(j)
      PROVE  DropsInv'
  <2>1. UNCHANGED <<out, dropped>>
    BY <1>7 DEF SubmitCheck, SubmitCount, SubmitReturn, SubmitSend, SubmitPanic, Panic,
                SubmitGiveUp, outVars
  <2>2. Completed' = Completed
    BY <1>7 DEF SubmitCheck, SubmitCount, SubmitReturn, SubmitSend, SubmitPanic, Panic,
                SubmitGiveUp, RolledBack, Completed,
                TypeOK, WorkerPoolMetrics
  <2>. QED BY <1>2, <2>1, <2>2
<1>8. CASE SpawnStep
  <2>1. Completed' = Completed
    BY <1>8 DEF SpawnStep, SpawnWorker, CountWorker, SpawnDone, Completed,
                TypeOK, WorkerPoolMetrics
  <2>. QED
    BY <1>2, <1>8, <2>1 DEF SpawnStep, SpawnWorker, CountWorker, SpawnDone, outVars
<1>9. CASE Start
  BY <1>3, <1>9 DEF Start, outVars
<1>10. ASSUME NEW g \in 1..MaxStarts, CheckHealth(g) \/ RestartWorkers(g)
       PROVE  DropsInv'
  BY <1>3, <1>10 DEF CheckHealth, RestartWorkers, outVars
<1>11. CASE StopBegin \/ StopStep
  <2>1. CASE StopCloseResults \/ StopCloseErrors
    <3>1. Stored' = Stored /\ UNCHANGED <<metrics, dropped>>
      BY <2>1 DEF StopCloseResults, StopCloseErrors, CloseOutput, Stored,
                  TypeOK, OutputChannel, Channel
    <3>. QED BY <1>0, <1>1, <3>1 DEF Completed
  <2>2. CASE ~(StopCloseResults \/ StopCloseErrors)
    BY <1>3, <1>11, <2>2
       DEF StopBegin, StopStep, StopCancel, StopCloseQueue, StopPanic, Panic, StopDrained,
           StopTimeout, outVars
  <2>. QED BY <2>1, <2>2
<1>12. ASSUME NEW c \in Channel, Take(c) PROVE DropsInv'
  <2>1. /\ out[c].held \in Nat /\ out[c].held > 0
        /\ out' = [out EXCEPT ![c].held = out[c].held - 1]
        /\ UNCHANGED <<metrics, dropped>>
    BY <1>12 DEF Take, TypeOK, OutputChannel
  <2>2. Stored' \in {Stored, Stored - 1} /\ Stored' \in Nat
    BY <1>0, <2>1 DEF Stored, TypeOK, OutputChannel, Channel
  <2>3. Stored' <= Stored
    BY <1>0, <2>2
  <2>. QED BY <1>1, <2>1, <2>2, <2>3 DEF Completed
<1>13. CASE UNCHANGED vars
  BY <1>3, <1>13 DEF vars, outVars
<1>. QED
  BY <1>6, <1>7, <1>8, <1>9, <1>10, <1>11, <1>12, <1>13 DEF Next

\* For every queue size and number of workers a result is dropped only once more
\* tasks have completed than the channel can hold.
THEOREM DropsNeedOverflow == Spec => []DropsOnlyOnOverflow
<1>1. Init => DropsInv
  BY DEF Init, DropsInv, Stored, Completed, Channel
<1>2. DropsInv => DropsOnlyOnOverflow
  BY DEF DropsInv, DropsOnlyOnOverflow, Completed
<1>. QED BY <1>1, <1>2, DropsStep, TypeCorrect, PTL DEF Spec

-----------------------------------------------------------------------------
(* The first life of the worker pool, from its first Start to the end of   *)
(* the Stop that follows: theorems about FirstLifeNeedsNoRestart and       *)
(* GracefulStop of WorkerPool.  Neither holds of a later life, because     *)
(* Start makes no new context and no new channels.                         *)

\* Before the first Start nothing has happened.
NotYetStarted ==
    /\ ~running /\ stop = "idle" /\ spawner = "nobody" /\ ~ctxDone /\ ~queueClosed
    /\ \A w \in Worker : wpc[w] = "unborn"
    /\ \A c \in Channel : ~out[c].closed

\* The first Start is on its way: its workers find nothing cancelled or closed.
Starting ==
    /\ ~running /\ ~ctxDone /\ ~queueClosed /\ ~out["resultCh"].closed
    /\ Alive + births = MaxWorkers

\* During the first life no worker can leave while the pool starts or runs, so none is
\* missed and none is restarted; Stop passes its wait only with the wait group empty.
FirstLife ==
    /\ spawner # "restart"
    /\ spawner = "start" => Starting
    /\ running => ~ctxDone /\ ~queueClosed /\ Alive = MaxWorkers
    /\ out["errorCh"].closed => out["resultCh"].closed
    /\ stop = "closeErrors" => out["resultCh"].closed
    /\ ~timedOut /\ (out["resultCh"].closed \/ stop = "closeResults") => InWaitGroup = {}
    /\ ~timedOut => panicked # "worker"

LifeInv ==
    /\ stop # "idle" => ~running
    /\ starts \in {0, 1} => \A g \in 1..MaxStarts : hmDue[g] = 0
    /\ starts = 0 => NotYetStarted
    /\ starts = 1 => FirstLife

\* A goroutine that moves changes the number alive only by leaving its loop, and
\* never enters the wait group.
LEMMA LifeMove ==
    ASSUME TypeOK, NEW w \in Worker, WorkerStep(w)
    PROVE  /\ InWaitGroup' \subseteq InWaitGroup
           /\ ~ExitLoop(w) => Alive' = Alive
<1> USE CountTypes, GainTable
<1>1. InWaitGroup' \subseteq InWaitGroup
  <2>1. \/ wpc' = wpc
        \/ \E s \in {"select", "leaving", "unborn"} \cup HoldsTask :
              Move(w, s) /\ wpc[w] \in {"select", "leaving"} \cup HoldsTask
    BY DEF WorkerStep, Receive, CountDequeue, BeginTask, EndTask, CompleteTask, FailTask,
           ExitLoop, Exited, WorkerPanic, Panic, workerVars, HoldsTask, Counting
  <2>. QED BY <2>1 DEF InWaitGroup, At, Move, TypeOK
<1>2. ASSUME NEW s, Move(w, s), Gain(wpc[w], s, {"select"} \cup HoldsTask) = 0
      PROVE  Alive' = Alive
  <2>1. wpc'[w] = s /\ Moves(wpc, wpc', Worker, w)
    BY <1>2 DEF Move, Moves, TypeOK
  <2>. QED BY <1>2, <2>1, CountGain, PoolAssumption DEF Alive
<1>3. ASSUME ~ExitLoop(w) PROVE Alive' = Alive
  <2>1. \/ wpc' = wpc
        \/ \E s \in {"select"} \cup HoldsTask :
              Move(w, s) /\ wpc[w] \in {"select"} \cup HoldsTask
        \/ Move(w, "unborn") /\ wpc[w] = "leaving"
    BY <1>3
       DEF WorkerStep, Receive, CountDequeue, BeginTask, EndTask, CompleteTask, FailTask,
           Exited, WorkerPanic, Panic, workerVars, HoldsTask, Counting
  <2>2. CASE wpc' = wpc
    BY <2>2 DEF Alive
  <2>3. ASSUME NEW s \in {"select"} \cup HoldsTask,
               Move(w, s), wpc[w] \in {"select"} \cup HoldsTask
        PROVE  Alive' = Alive
    BY <1>2, <2>3 DEF Gain
  <2>4. CASE Move(w, "unborn") /\ wpc[w] = "leaving"
    BY <1>2, <2>4 DEF Gains
  <2>. QED BY <2>1, <2>2, <2>3, <2>4
<1>. QED BY <1>1, <1>3

LEMMA LifeWorker ==
    ASSUME TypeOK, OneHolder, LifeInv, NEW w \in Worker, WorkerStep(w)
    PROVE  LifeInv'
<1> USE DEF lifeVars, stopVars, spawnVars
<1>1. /\ UNCHANGED <<running, starts, stop, timedOut, ctxDone, queueClosed, hmDue>>
      /\ UNCHANGED <<spawner, births>>
      /\ \A c \in Channel : out'[c].closed = out[c].closed
  <2>1. ASSUME NEW c \in Channel, Offer(c)
        PROVE  \A d \in Channel : out'[d].closed = out[d].closed
    BY <2>1 DEF Offer, TypeOK, OutputChannel
  <2>2. CASE CompleteTask(w)
    BY <2>2, <2>1 DEF CompleteTask, Channel
  <2>3. CASE FailTask(w)
    BY <2>3, <2>1 DEF FailTask, Channel
  <2>. QED
    BY <2>2, <2>3
       DEF WorkerStep, Receive, CountDequeue, BeginTask, EndTask, ExitLoop, Exited,
           WorkerPanic, Panic, outVars
<1>2. wpc[w] # "unborn"
  BY DEF WorkerStep, Receive, CountDequeue, BeginTask, EndTask, CompleteTask, FailTask,
         ExitLoop, Exited, WorkerPanic, Counting
<1>3. starts # 0
  BY <1>2 DEF LifeInv, NotYetStarted
<1>4. CASE starts = 1
  <2>1. FirstLife
    BY <1>4 DEF LifeInv
  <2>2. (running => ~ctxDone /\ ~queueClosed /\ Alive = MaxWorkers)'
    <3>1. running => ~ExitLoop(w)
      BY <2>1 DEF FirstLife, ExitLoop, MayLeave
    <3>. QED BY <1>1, <2>1, <3>1, LifeMove DEF FirstLife
  <2>0. (spawner # "restart" /\ (spawner = "start" => Starting))'
    <3>1. spawner = "start" => ~ExitLoop(w)
      BY <2>1 DEF FirstLife, Starting, ExitLoop, MayLeave
    <3>. QED BY <1>1, <2>1, <3>1, LifeMove DEF FirstLife, Starting, Channel
  <2>3. (/\ out["errorCh"].closed => out["resultCh"].closed
         /\ stop = "closeErrors" => out["resultCh"].closed)'
    BY <1>1, <2>1 DEF FirstLife, Channel
  <2>4. (~timedOut /\ (out["resultCh"].closed \/ stop = "closeResults")
             => InWaitGroup = {})'
    BY <1>1, <2>1, LifeMove DEF FirstLife, Channel
  <2>5. (~timedOut => panicked # "worker")'
    <3> SUFFICES ASSUME ~timedOut PROVE panicked' # "worker"
      BY <1>1
    <3>1. CASE out["resultCh"].closed
      <4>1. wpc[w] \notin {"select", "leaving"} \cup HoldsTask
        BY <2>1, <3>1 DEF FirstLife, InWaitGroup, At
      <4>. QED
        BY <4>1 DEF WorkerStep, Receive, CountDequeue, BeginTask, EndTask, CompleteTask,
                    FailTask, ExitLoop, Exited, WorkerPanic, HoldsTask, Counting
    <3>2. CASE ~out["resultCh"].closed
      <4>1. ~out["errorCh"].closed /\ panicked # "worker"
        BY <2>1, <3>2 DEF FirstLife
      <4>. QED
        BY <3>2, <4>1
           DEF WorkerStep, Receive, CountDequeue, BeginTask, EndTask, CompleteTask,
               FailTask, ExitLoop, Exited, WorkerPanic
    <3>. QED BY <3>1, <3>2
  <2>6. FirstLife'
    BY <2>0, <2>2, <2>3, <2>4, <2>5 DEF FirstLife
  <2>. QED BY <1>1, <1>4, <2>6 DEF LifeInv
<1>5. CASE starts \notin {0, 1}
  BY <1>1, <1>5 DEF LifeInv
<1>. QED BY <1>3, <1>4, <1>5

\* The first Start makes no worker yet; a second one ends the first life.
LEMMA LifeStart ==
    ASSUME TypeOK, LifeInv, Start
    PROVE  LifeInv'
<1>1. /\ stop = "idle" /\ panicked = "no" /\ starts' = starts + 1
      /\ spawner' = "start" /\ births' = MaxWorkers /\ ~running
      /\ UNCHANGED <<running, stop, timedOut, ctxDone, queueClosed, out, dropped, hmDue,
                     panicked, wpc>>
  BY DEF Start, Up, LockFree, outVars, stopVars, workerVars
<1>2. CASE starts = 0
  <2>1. NotYetStarted /\ \A g \in 1..MaxStarts : hmDue[g] = 0
    BY <1>2 DEF LifeInv
  <2>2. Alive' = 0
    <3>1. {w \in Worker : wpc'[w] \in {"select"} \cup HoldsTask} = {}
      BY <1>1, <2>1 DEF NotYetStarted, HoldsTask, Counting
    <3>. QED BY <3>1, FS_EmptySet DEF Alive, Count
  <2>3. Starting'
    BY <1>1, <2>1, <2>2, ConstantTypes DEF Starting, NotYetStarted, Channel
  <2>4. FirstLife'
    BY <1>1, <2>1, <2>3 DEF FirstLife, NotYetStarted, Channel
  <2>. QED BY <1>1, <1>2, <2>1, <2>4 DEF LifeInv
<1>3. CASE starts # 0
  <2>1. starts' \notin {0, 1}
    BY <1>1, <1>3 DEF TypeOK
  <2>. QED BY <1>1, <2>1 DEF LifeInv
<1>. QED BY <1>2, <1>3

\* The first Start's workers are born one by one, and it says it runs after the last.
LEMMA LifeSpawn ==
    ASSUME TypeOK, SpawnerHoldsLock, LifeInv, SpawnStep
    PROVE  LifeInv'
<1>1. /\ spawner # "nobody" /\ stop = "idle"
      /\ UNCHANGED <<starts, stop, timedOut, ctxDone, queueClosed, out, hmDue, panicked>>
  BY DEF SpawnStep, SpawnWorker, CountWorker, SpawnDone, SpawnerHoldsLock, stopVars, outVars
<1>2. starts # 0
  BY <1>1 DEF LifeInv, NotYetStarted
<1>3. ASSUME starts = 1 PROVE FirstLife'
  <2>1. FirstLife /\ Starting
    BY <1>1, <1>3 DEF LifeInv, FirstLife, TypeOK, Spawner
  <2>2. ~out["errorCh"].closed
    BY <2>1 DEF FirstLife, Starting
  <2>3. Alive \in Nat /\ births \in Nat
    BY CountTypes DEF TypeOK
  <2>4. CASE SpawnWorker
    <3>1. PICK w \in Worker : wpc[w] = "unborn" /\ Move(w, "select")
      BY <2>4 DEF SpawnWorker, Unborn, At, Move
    <3>2. Alive' = Alive + 1
      BY <3>1, WorkerMove, GainTable DEF CountsAdd
    <3>3. births' = births - 1 /\ UNCHANGED <<running, spawner>>
      BY <2>4 DEF SpawnWorker
    <3>4. Starting'
      BY <1>1, <2>1, <2>3, <3>2, <3>3 DEF Starting
    <3>. QED BY <1>1, <2>1, <2>2, <3>3, <3>4 DEF FirstLife, Starting
  <2>5. CASE CountWorker
    <3>1. UNCHANGED <<running, spawner, births, Alive>>
      BY <2>5 DEF CountWorker, workerVars, Alive
    <3>2. Starting'
      BY <1>1, <2>1, <3>1 DEF Starting
    <3>. QED BY <1>1, <2>1, <2>2, <3>1, <3>2 DEF FirstLife, Starting
  <2>6. CASE SpawnDone
    <3>1. births = 0 /\ spawner' = "nobody" /\ UNCHANGED Alive
      BY <2>6 DEF SpawnDone, workerVars, Alive
    <3>2. Alive = MaxWorkers
      BY <2>1, <2>3, <3>1 DEF Starting
    <3>. QED BY <1>1, <2>1, <2>2, <3>1, <3>2 DEF FirstLife, Starting
  <2>. QED BY <2>4, <2>5, <2>6 DEF SpawnStep
<1>. QED BY <1>1, <1>2, <1>3 DEF LifeInv

\* In the first life the monitor finds every worker there.
LEMMA LifeMonitor ==
    ASSUME TypeOK, CountersExact, SpawnerHoldsLock, LifeInv, NEW g \in 1..MaxStarts,
           CheckHealth(g) \/ RestartWorkers(g)
    PROVE  LifeInv'
<1>1. UNCHANGED <<running, starts, stop>>
  BY DEF CheckHealth, RestartWorkers, lifeVars, stopVars
<1>2. starts \notin {0, 1}
  <2>1. CASE CheckHealth(g)
    <3>1. starts # 0
      BY <2>1, ConstantTypes DEF CheckHealth
    <3>2. ~(starts = 1)
      <4> SUFFICES ASSUME starts = 1 PROVE FALSE
        OBVIOUS
      <4>1. metrics.activeWorkers = MaxWorkers
        <5>1. Alive = MaxWorkers /\ Uncounted = 0
          BY <2>1 DEF CheckHealth, LifeInv, FirstLife, SpawnerHoldsLock, LockFree, Uncounted
        <5>. QED BY <5>1, ConstantTypes DEF CountersExact, Workers
      <4>2. metrics.activeWorkers < MaxWorkers
        BY <2>1 DEF CheckHealth
      <4>. QED BY <4>1, <4>2, ConstantTypes
    <3>. QED BY <3>1, <3>2
  <2>2. CASE RestartWorkers(g)
    BY <2>2 DEF RestartWorkers, LifeInv
  <2>. QED BY <2>1, <2>2
<1>. QED BY <1>1, <1>2 DEF LifeInv

LEMMA LifeStop ==
    ASSUME TypeOK, SpawnerHoldsLock, LifeInv, StopBegin \/ StopStep
    PROVE  LifeInv'
<1> USE DEF lifeVars, stopVars, spawnVars
<1>0. spawner = "nobody" /\ spawner' = "nobody"
  BY DEF StopBegin, StopStep, StopCancel, StopCloseQueue, StopPanic, StopDrained,
         StopTimeout, StopCloseResults, StopCloseErrors, CloseOutput, Panic, LockFree,
         SpawnerHoldsLock
<1>1. UNCHANGED <<starts, hmDue, wpc>> /\ (running' => running)
  BY DEF StopBegin, StopStep, StopCancel, StopCloseQueue, StopPanic, StopDrained,
         StopTimeout, StopCloseResults, StopCloseErrors, CloseOutput, Panic,
         workerVars
<1>2. Alive' = Alive /\ InWaitGroup' = InWaitGroup
  BY <1>1 DEF Alive, InWaitGroup, At
<1>3. starts # 0
  BY DEF LifeInv, NotYetStarted, StopBegin, StopStep, StopCancel, StopCloseQueue, StopPanic,
         StopDrained, StopTimeout, StopCloseResults, StopCloseErrors, CloseOutput
<1>4. (stop # "idle" => ~running)'
  BY DEF LifeInv, StopBegin, StopStep, StopCancel, StopCloseQueue, StopPanic, StopDrained,
         StopTimeout, StopCloseResults, StopCloseErrors, CloseOutput, Panic
<1>5. ASSUME starts = 1 PROVE FirstLife'
  <2>1. FirstLife
    BY <1>5 DEF LifeInv
  <2>2. CASE StopBegin
    BY <1>0, <1>2, <2>1, <2>2 DEF StopBegin, FirstLife, outVars
  <2>3. ASSUME StopCancel \/ StopCloseQueue \/ StopPanic PROVE FirstLife'
    BY <1>0, <1>2, <2>1, <2>3
       DEF StopCancel, StopCloseQueue, StopPanic, Panic, FirstLife, LifeInv, outVars
  <2>4. CASE StopDrained
    BY <1>0, <1>2, <2>1, <2>4 DEF StopDrained, WaitGroupDone, FirstLife, outVars
  <2>5. CASE StopTimeout
    BY <1>0, <1>2, <2>1, <2>5 DEF StopTimeout, FirstLife, outVars
  <2>6. CASE StopCloseResults
    <3>1. /\ stop = "closeResults" /\ stop' = "closeErrors"
          /\ out' = [out EXCEPT !["resultCh"].closed = TRUE]
          /\ UNCHANGED <<running, timedOut, ctxDone, queueClosed, panicked>>
      BY <2>6 DEF StopCloseResults, CloseOutput
    <3>2. out'["resultCh"].closed
      BY <3>1 DEF TypeOK, OutputChannel, Channel
    <3>. QED BY <1>0, <1>2, <2>1, <3>1, <3>2 DEF FirstLife
  <2>7. CASE StopCloseErrors
    <3>1. /\ stop = "closeErrors" /\ stop' = "idle"
          /\ out' = [out EXCEPT !["errorCh"].closed = TRUE]
          /\ UNCHANGED <<running, timedOut, ctxDone, queueClosed, panicked>>
      BY <2>7 DEF StopCloseErrors, CloseOutput
    <3>2. out'["resultCh"].closed
      BY <2>1, <3>1 DEF TypeOK, OutputChannel, Channel, FirstLife
    <3>. QED BY <1>0, <1>2, <2>1, <3>1, <3>2 DEF FirstLife
  <2>. QED BY <2>2, <2>3, <2>4, <2>5, <2>6, <2>7 DEF StopStep
<1>. QED BY <1>1, <1>3, <1>4, <1>5 DEF LifeInv

LEMMA LifeStep ==
    TypeOK /\ OneHolder /\ CountersExact /\ SpawnerHoldsLock /\ LifeInv /\ [Next]_vars
        => LifeInv'
<1> SUFFICES ASSUME TypeOK, OneHolder, CountersExact, SpawnerHoldsLock, LifeInv, [Next]_vars
             PROVE  LifeInv'
  OBVIOUS
<1> USE DEF lifeVars, stopVars, spawnVars
<1>1. ASSUME UNCHANGED <<running, starts, stopVars, spawner, births, hmDue, wpc>>,
             \A c \in Channel : out'[c].closed = out[c].closed,
             panicked' = "worker" => panicked = "worker"
      PROVE  LifeInv'
  <2>1. Alive' = Alive /\ InWaitGroup' = InWaitGroup
    BY <1>1 DEF Alive, InWaitGroup, At
  <2>2. FirstLife => FirstLife'
    BY <1>1, <2>1 DEF FirstLife, Starting, Channel
  <2>. QED BY <1>1, <2>2 DEF LifeInv, NotYetStarted
<1>2. ASSUME NEW j \in Job, SubmitCheck(j) \/ SubmitCount(j) \/ SubmitReturn(j)
      PROVE  LifeInv'
  BY <1>1, <1>2
     DEF SubmitCheck, SubmitCount, SubmitReturn, SubmitSend, SubmitPanic, SubmitGiveUp,
         Panic, workerVars, outVars
<1>3. ASSUME NEW c \in Channel, Take(c) PROVE LifeInv'
  <2>1. \A d \in Channel : out'[d].closed = out[d].closed
    BY <1>3 DEF Take, TypeOK, OutputChannel
  <2>. QED BY <1>1, <1>3, <2>1 DEF Take, workerVars
<1>4. CASE UNCHANGED vars
  BY <1>1, <1>4 DEF vars, workerVars, outVars
<1>. QED
  BY <1>2, <1>3, <1>4, LifeStart, LifeSpawn, LifeMonitor, LifeStop, LifeWorker DEF Next

\* In the pool's first life the health monitor has nothing to restart: while it runs,
\* activeWorkers is MaxWorkers, whatever the workers and submitters do.
THEOREM FirstLifeStable == Spec => []FirstLifeNeedsNoRestart
<1>1. Init => LifeInv
  BY DEF Init, LifeInv, NotYetStarted, Channel
<1>2. TypeOK /\ LifeInv /\ SpawnerHoldsLock /\ CountersExact => FirstLifeNeedsNoRestart
  <2> SUFFICES ASSUME TypeOK, LifeInv, SpawnerHoldsLock, CountersExact, starts = 1
               PROVE  /\ running => metrics.activeWorkers = MaxWorkers
                      /\ \A g \in 1..MaxStarts : hmDue[g] = 0
    BY DEF FirstLifeNeedsNoRestart
  <2>1. FirstLife /\ \A g \in 1..MaxStarts : hmDue[g] = 0
    BY DEF LifeInv
  <2>2. ASSUME running PROVE metrics.activeWorkers = MaxWorkers
    <3>1. spawner = "nobody"
      BY <2>1, <2>2 DEF FirstLife, Starting, TypeOK, Spawner
    <3>2. Uncounted = 0
      BY <3>1 DEF SpawnerHoldsLock, Uncounted
    <3>. QED BY <2>1, <2>2, <3>2, ConstantTypes DEF FirstLife, CountersExact, Workers
  <2>. QED BY <2>1, <2>2
<1>3. Init => SpawnerHoldsLock
  BY DEF Init, SpawnerHoldsLock
<1>. QED
  BY <1>1, <1>2, <1>3, LifeStep, SpawnerStep, CountersMean, CountersCorrect, TypeCorrect,
     TasksHaveOneHolder, PTL
     DEF Spec

\* A first Stop that does not time out closes the output channels on no worker: none
\* is left to send on them, so none panics.
THEOREM FirstStopIsGraceful == Spec => []GracefulStop
<1>1. Init => LifeInv
  BY DEF Init, LifeInv, NotYetStarted, Channel
<1>2. LifeInv => GracefulStop
  BY DEF LifeInv, FirstLife, GracefulStop
<1>3. Init => SpawnerHoldsLock
  BY DEF Init, SpawnerHoldsLock
<1>. QED
  BY <1>1, <1>2, <1>3, LifeStep, SpawnerStep, CountersMean, CountersCorrect, TypeCorrect,
     TasksHaveOneHolder, PTL
     DEF Spec
=============================================================================
