-------------------------- MODULE WorkerPoolProofs --------------------------
(***************************************************************************)
(* Proofs about WorkerPool for every set of jobs and workers and every     *)
(* value of the configuration: types, one holder for every task, and the   *)
(* refinement of TaskLedger.                                               *)
(***************************************************************************)
EXTENDS WorkerPool, TLAPS, FiniteSetTheorems, SequenceTheorems, FunctionTheorems

LEMMA ConstantTypes ==
    /\ MaxWorkers \in Nat /\ MaxWorkers > 0
    /\ QueueSize \in Nat /\ QueueSize > 0
    /\ MaxRetries \in Nat /\ MaxStarts \in Nat /\ MaxSubmits \in Nat
BY PoolAssumption

-----------------------------------------------------------------------------
(* Type correctness.                                                       *)

LEMMA OfferType ==
    ASSUME TypeOK, NEW c \in Channel, Offer(c)
    PROVE  /\ out' \in [Channel -> OutputChannel]
           /\ \A d \in Channel : out'[d].held <= QueueSize
<1>1. CASE out[c].held < QueueSize
  <2>1. out[c].held \in Nat /\ out[c].held + 1 \in Nat /\ out[c].held + 1 <= QueueSize
    BY <1>1, ConstantTypes DEF TypeOK, OutputChannel
  <2>2. out' = [out EXCEPT ![c].held = out[c].held + 1]
    BY <1>1 DEF Offer
  <2>3. out' \in [Channel -> OutputChannel]
    BY <2>1, <2>2 DEF TypeOK, OutputChannel
  <2>4. \A d \in Channel : out'[d].held <= QueueSize
    BY <2>1, <2>2 DEF TypeOK, OutputChannel
  <2>. QED BY <2>3, <2>4
<1>2. CASE ~(out[c].held < QueueSize)
  BY <1>2 DEF Offer, TypeOK
<1>. QED BY <1>1, <1>2

\* What each action does to the counters keeps them integers.
LEMMA CounterTypes ==
    ASSUME metrics \in WorkerPoolMetrics
    PROVE  /\ CountWorker => metrics' \in WorkerPoolMetrics
           /\ \A j \in Job : SubmitCount(j) => metrics' \in WorkerPoolMetrics
           /\ \A j \in Job : SubmitGiveUp(j) => metrics' \in WorkerPoolMetrics
           /\ \A w \in Worker :
                 CountDequeue(w) \/ BeginTask(w) \/ EndTask(w) \/ CompleteTask(w)
                 \/ FailTask(w) \/ ExitLoop(w) => metrics' \in WorkerPoolMetrics
<1>1. ASSUME CountWorker PROVE metrics' \in WorkerPoolMetrics
  BY <1>1 DEF CountWorker, WorkerPoolMetrics
<1>3. ASSUME NEW j \in Job, SubmitCount(j) PROVE metrics' \in WorkerPoolMetrics
  <2> DEFINE queued == [metrics EXCEPT !.tasksQueued = metrics.tasksQueued + 1]
  <2>1. queued \in WorkerPoolMetrics /\ queued.queueDepth = metrics.queueDepth
    BY DEF WorkerPoolMetrics
  <2>2. metrics' = [metrics EXCEPT !.tasksQueued = metrics.tasksQueued + 1,
                                   !.queueDepth = metrics.queueDepth + 1]
    BY <1>3 DEF SubmitCount, WorkerPoolMetrics
  <2>3. metrics' = [queued EXCEPT !.queueDepth = queued.queueDepth + 1]
    BY <2>1, <2>2
  <2> HIDE DEF queued
  <2>. QED BY <2>1, <2>3 DEF WorkerPoolMetrics
<1>4. ASSUME NEW j \in Job, SubmitGiveUp(j) PROVE metrics' \in WorkerPoolMetrics
  <2> DEFINE queued == [metrics EXCEPT !.tasksQueued = metrics.tasksQueued - 1]
  <2>1. queued \in WorkerPoolMetrics /\ queued.queueDepth = metrics.queueDepth
    BY DEF WorkerPoolMetrics
  <2>2. metrics' = [metrics EXCEPT !.tasksQueued = metrics.tasksQueued - 1,
                                   !.queueDepth = metrics.queueDepth - 1]
    BY <1>4 DEF SubmitGiveUp, RolledBack, WorkerPoolMetrics
  <2>3. metrics' = [queued EXCEPT !.queueDepth = queued.queueDepth - 1]
    BY <2>1, <2>2
  <2> HIDE DEF queued
  <2>. QED BY <2>1, <2>3 DEF WorkerPoolMetrics
<1>5. ASSUME NEW w \in Worker, CountDequeue(w) PROVE metrics' \in WorkerPoolMetrics
  BY <1>5 DEF CountDequeue, WorkerPoolMetrics
<1>6. ASSUME NEW w \in Worker, BeginTask(w) \/ EndTask(w) PROVE metrics' \in WorkerPoolMetrics
  BY <1>6 DEF BeginTask, EndTask, WorkerPoolMetrics
<1>7. ASSUME NEW w \in Worker, CompleteTask(w) PROVE metrics' \in WorkerPoolMetrics
  BY <1>7 DEF CompleteTask, WorkerPoolMetrics
<1>8. ASSUME NEW w \in Worker, FailTask(w) PROVE metrics' \in WorkerPoolMetrics
  BY <1>8 DEF FailTask, WorkerPoolMetrics
<1>9. ASSUME NEW w \in Worker, ExitLoop(w) PROVE metrics' \in WorkerPoolMetrics
  BY <1>9 DEF ExitLoop, WorkerPoolMetrics
<1>. QED BY <1>1, <1>3, <1>4, <1>5, <1>6, <1>7, <1>8, <1>9

LEMMA MoveType ==
    ASSUME TypeOK, NEW w \in Worker, NEW s \in WorkState, Move(w, s)
    PROVE  wpc' \in [Worker -> WorkState]
BY DEF Move, TypeOK

\* A worker holds a task exactly in the places where it uses one, which is what
\* makes the types of sub and retries inductive.
HoldsTyped == \A w \in Worker : wpc[w] \in HoldsTask <=> wjob[w] # NoJob

LEMMA TypeInit == Init => TypeOK /\ HoldsTyped
<1> SUFFICES ASSUME Init PROVE TypeOK /\ HoldsTyped
  OBVIOUS
<1>a. HoldsTyped
  BY DEF Init, HoldsTyped, HoldsTask, Counting
<1>b. TypeOK
  <2>1. metrics \in WorkerPoolMetrics
    BY DEF Init, WorkerPoolMetrics
  <2>2. /\ out \in [Channel -> OutputChannel]
        /\ \A c \in Channel : out[c].held <= QueueSize
    BY ConstantTypes DEF Init, OutputChannel
  <2>3. taskQueue \in Seq(Job) /\ Len(taskQueue) <= QueueSize
    BY ConstantTypes, EmptySeq DEF Init
  <2>4. /\ sub \in [Job -> SubState] /\ retries \in [Job -> Nat] /\ attempts \in [Job -> Nat]
        /\ wpc \in [Worker -> WorkState] /\ wjob \in [Worker -> Job \cup {NoJob}]
    BY DEF Init, SubState, WorkState
  <2>5. starts \in 0..MaxStarts /\ hmDue \in [1..MaxStarts -> Nat]
    BY ConstantTypes DEF Init
  <2>6. stop \in StopState /\ spawner \in Spawner /\ births \in Nat
    BY DEF Init, StopState, Spawner
  <2>. QED
    BY <2>1, <2>2, <2>3, <2>4, <2>5, <2>6 DEF Init, TypeOK
<1>. QED BY <1>a, <1>b

LEMMA TypeStep == TypeOK /\ HoldsTyped /\ [Next]_vars => TypeOK'
<1> SUFFICES ASSUME TypeOK, HoldsTyped, [Next]_vars PROVE TypeOK'
  OBVIOUS
<1> USE DEF lifeVars, stopVars, spawnVars, jobVars, workerVars, outVars
<1>0. metrics \in WorkerPoolMetrics
  BY DEF TypeOK
<1>1. CASE Start
  <2>1. starts' \in 0..MaxStarts
    BY <1>1, ConstantTypes DEF Start, TypeOK
  <2>2. spawner' \in Spawner /\ births' \in Nat
    BY <1>1, ConstantTypes DEF Start, Spawner
  <2>. QED BY <1>1, <2>1, <2>2 DEF Start, TypeOK
<1>2. CASE StopBegin
  BY <1>2 DEF StopBegin, TypeOK, StopState
<1>3. CASE StopStep
  <2>1. CASE StopCancel
    BY <2>1 DEF StopCancel, TypeOK, StopState
  <2>2. CASE StopCloseQueue
    BY <2>2 DEF StopCloseQueue, TypeOK, StopState
  <2>3. CASE StopPanic
    BY <2>3 DEF StopPanic, Panic, TypeOK
  <2>4. CASE StopDrained
    BY <2>4 DEF StopDrained, TypeOK, StopState
  <2>5. CASE StopTimeout
    BY <2>5 DEF StopTimeout, TypeOK, StopState
  <2>6. ASSUME NEW c \in Channel, NEW from, NEW to \in StopState, CloseOutput(c, from, to)
        PROVE  TypeOK'
    <3>1. /\ out' \in [Channel -> OutputChannel]
          /\ \A d \in Channel : out'[d].held = out[d].held
      BY <2>6 DEF CloseOutput, TypeOK, OutputChannel
    <3>. QED BY <2>6, <3>1 DEF CloseOutput, TypeOK
  <2>. QED
    BY <1>3, <2>1, <2>2, <2>3, <2>4, <2>5, <2>6
       DEF StopStep, StopCloseResults, StopCloseErrors, Channel, StopState
<1>4. ASSUME NEW g \in 1..MaxStarts, CheckHealth(g) PROVE TypeOK'
  <2>1. MaxWorkers - metrics.activeWorkers \in Nat
    BY <1>0, <1>4, ConstantTypes DEF CheckHealth, WorkerPoolMetrics
  <2>2. hmDue' \in [1..MaxStarts -> Nat]
    BY <1>4, <2>1 DEF CheckHealth, TypeOK
  <2>. QED BY <1>4, <2>2 DEF CheckHealth, TypeOK
<1>5. ASSUME NEW g \in 1..MaxStarts, RestartWorkers(g) PROVE TypeOK'
  <2>1. hmDue[g] \in Nat
    BY DEF TypeOK
  <2>2. hmDue' \in [1..MaxStarts -> Nat]
    BY <1>5 DEF RestartWorkers, TypeOK
  <2>3. spawner' \in Spawner /\ births' \in Nat
    BY <1>5, <2>1 DEF RestartWorkers, Spawner
  <2>. QED BY <1>5, <2>2, <2>3 DEF RestartWorkers, TypeOK
<1>6. ASSUME NEW j \in Job, SubmitCheck(j) PROVE TypeOK'
  BY <1>6 DEF SubmitCheck, TypeOK, SubState
<1>7. ASSUME NEW j \in Job, SubmitCount(j) PROVE TypeOK'
  <2>1. metrics' \in WorkerPoolMetrics
    BY <1>0, <1>7, CounterTypes
  <2>. QED BY <1>7, <2>1 DEF SubmitCount, TypeOK, SubState
<1>8. ASSUME NEW j \in Job, SubmitReturn(j) PROVE TypeOK'
  <2>1. CASE SubmitSend(j)
    <3>1. /\ taskQueue' \in Seq(Job)
          /\ Len(taskQueue') = Len(taskQueue) + 1
          /\ Len(taskQueue) \in Nat
      BY <2>1, AppendProperties, LenProperties DEF SubmitSend, TypeOK
    <3>2. Len(taskQueue') <= QueueSize
      BY <2>1, <3>1, ConstantTypes DEF SubmitSend, QueueHasRoom
    <3>3. sub' \in [Job -> SubState]
      BY <2>1 DEF SubmitSend, TypeOK, SubState
    <3>. QED
      BY <2>1, <3>1, <3>2, <3>3 DEF SubmitSend, TypeOK
  <2>2. CASE SubmitPanic(j)
    BY <2>2 DEF SubmitPanic, Panic, TypeOK
  <2>3. ASSUME SubmitGiveUp(j) PROVE TypeOK'
    <3>1. metrics' \in WorkerPoolMetrics
      BY <1>0, <2>3, CounterTypes
    <3>. QED BY <2>3, <3>1 DEF SubmitGiveUp, TypeOK, SubState
  <2>. QED
    BY <1>8, <2>1, <2>2, <2>3 DEF SubmitReturn
<1>9. ASSUME NEW w \in Worker, WorkerStep(w) PROVE TypeOK'
  <2> USE DEF WorkState, HoldsTask, Counting
  <2>1. CASE Receive(w)
    <3>1. /\ Head(taskQueue) \in Job /\ Tail(taskQueue) \in Seq(Job)
          /\ Len(Tail(taskQueue)) = Len(taskQueue) - 1
          /\ Len(taskQueue) \in Nat
      BY <2>1, HeadTailProperties, LenProperties DEF Receive, TypeOK
    <3>2. Len(taskQueue') <= QueueSize
      BY <2>1, <3>1, ConstantTypes DEF Receive, TypeOK
    <3>3. wpc' \in [Worker -> WorkState]
      BY <2>1, MoveType DEF Receive
    <3>. QED
      BY <2>1, <3>1, <3>2, <3>3 DEF Receive, TypeOK
  <2>2. ASSUME CountDequeue(w) \/ BeginTask(w) \/ EndTask(w) PROVE TypeOK'
    <3>1. metrics' \in WorkerPoolMetrics
      BY <1>0, <2>2, CounterTypes
    <3>2. wpc' \in [Worker -> WorkState]
      BY <2>2, MoveType DEF CountDequeue, BeginTask, EndTask
    <3>. QED
      BY <2>2, <3>1, <3>2 DEF CountDequeue, BeginTask, EndTask, TypeOK
  <2>3. CASE CompleteTask(w)
    <3>1. wjob[w] \in Job
      BY <2>3 DEF CompleteTask, TypeOK, HoldsTyped
    <3>2. /\ out' \in [Channel -> OutputChannel]
          /\ \A d \in Channel : out'[d].held <= QueueSize
      BY <2>3, <3>1, OfferType DEF CompleteTask, Channel
    <3>3. metrics' \in WorkerPoolMetrics
      BY <1>0, <2>3, CounterTypes
    <3>. QED
      BY <2>3, <3>1, <3>2, <3>3 DEF CompleteTask, Move, TypeOK, SubState
  <2>4. CASE WorkerPanic(w)
    BY <2>4 DEF WorkerPanic, Panic, TypeOK
  <2>5. CASE FailTask(w)
    <3>1. wjob[w] \in Job \cup {NoJob}
      BY DEF TypeOK
    <3>2. /\ out' \in [Channel -> OutputChannel]
          /\ \A d \in Channel : out'[d].held <= QueueSize
      BY <2>5, <3>1, OfferType DEF FailTask, Channel, TypeOK
    <3>3. metrics' \in WorkerPoolMetrics
      BY <1>0, <2>5, CounterTypes
    <3>4. /\ sub' \in [Job -> SubState] /\ retries' \in [Job -> Nat]
          /\ panicked' \in {"no", "submit", "worker", "stop"}
      <4> DEFINE j == wjob[w]
      <4>0. j \in Job /\ retries[j] + 1 \in Nat
        BY <2>5 DEF FailTask, TypeOK, HoldsTyped
      <4>1. CASE retries[j] < MaxRetries
        <5>1. /\ retries' = [retries EXCEPT ![j] = retries[j] + 1]
              /\ sub' = [sub EXCEPT ![j] = "backoff"]
              /\ UNCHANGED panicked
          BY <2>5, <4>1 DEF FailTask
        <5>. QED BY <4>0, <5>1 DEF TypeOK, SubState
      <4>2. CASE ~(retries[j] < MaxRetries)
        <5>1. /\ UNCHANGED retries
              /\ sub' = [sub EXCEPT ![j] = "failed"]
              /\ panicked' = IF out["errorCh"].closed THEN "worker" ELSE "no"
          BY <2>5, <4>2 DEF FailTask
        <5>. QED BY <4>0, <5>1 DEF TypeOK, SubState
      <4>. QED BY <4>1, <4>2
    <3>. QED
      BY <2>5, <3>1, <3>2, <3>3, <3>4 DEF FailTask, Move, TypeOK
  <2>6. CASE ExitLoop(w)
    <3>1. metrics' \in WorkerPoolMetrics
      BY <1>0, <2>6, CounterTypes
    <3>. QED BY <2>6, <3>1 DEF ExitLoop, Move, TypeOK
  <2>7. CASE Exited(w)
    BY <2>7 DEF Exited, Move, TypeOK
  <2>. QED
    BY <1>9, <2>1, <2>2, <2>3, <2>4, <2>5, <2>6, <2>7 DEF WorkerStep
<1>10. ASSUME NEW c \in Channel, Take(c) PROVE TypeOK'
  <2>1. /\ out[c].held \in Nat /\ out[c].held - 1 \in Nat
        /\ out[c].held - 1 <= QueueSize
        /\ out' = [out EXCEPT ![c].held = out[c].held - 1]
    BY <1>10, ConstantTypes DEF Take, TypeOK, OutputChannel
  <2>2. out' \in [Channel -> OutputChannel]
    BY <2>1 DEF TypeOK, OutputChannel
  <2>3. \A d \in Channel : out'[d].held <= QueueSize
    BY <2>1 DEF TypeOK, OutputChannel
  <2>. QED
    BY <1>10, <2>2, <2>3 DEF Take, TypeOK
<1>11. CASE UNCHANGED vars
  BY <1>11 DEF vars, TypeOK
<1>12. CASE SpawnStep
  <2>1. CASE SpawnWorker
    <3>1. births' \in Nat
      BY <2>1 DEF SpawnWorker, TypeOK
    <3>2. wpc' \in [Worker -> WorkState]
      BY <2>1 DEF SpawnWorker, TypeOK, WorkState
    <3>. QED BY <2>1, <3>1, <3>2 DEF SpawnWorker, TypeOK
  <2>2. CASE CountWorker
    BY <1>0, <2>2, CounterTypes DEF CountWorker, TypeOK
  <2>3. CASE SpawnDone
    BY <2>3 DEF SpawnDone, TypeOK, Spawner
  <2>. QED BY <1>12, <2>1, <2>2, <2>3 DEF SpawnStep
<1>. QED
  BY <1>1, <1>2, <1>3, <1>4, <1>5, <1>6, <1>7, <1>8, <1>9, <1>10, <1>11, <1>12 DEF Next

LEMMA HoldsStep == TypeOK /\ HoldsTyped /\ [Next]_vars => HoldsTyped'
<1> SUFFICES ASSUME TypeOK, HoldsTyped, [Next]_vars PROVE HoldsTyped'
  OBVIOUS
<1> USE DEF HoldsTyped, HoldsTask, Counting, workerVars
<1>1. CASE SpawnWorker
  BY <1>1 DEF SpawnWorker, TypeOK, Unborn, At
<1>2. ASSUME NEW w \in Worker, WorkerStep(w) PROVE HoldsTyped'
  <2>1. CASE Receive(w)
    <3>1. Head(taskQueue) \in Job
      BY <2>1, HeadTailProperties DEF Receive, TypeOK
    <3>. QED BY <2>1, <3>1, PoolAssumption DEF Receive, Move, TypeOK
  <2>2. ASSUME CountDequeue(w) \/ BeginTask(w) \/ EndTask(w) PROVE HoldsTyped'
    BY <2>2 DEF CountDequeue, BeginTask, EndTask, Move, TypeOK
  <2>3. ASSUME CompleteTask(w) \/ FailTask(w) PROVE HoldsTyped'
    BY <2>3 DEF CompleteTask, FailTask, Move, TypeOK
  <2>4. ASSUME ExitLoop(w) \/ Exited(w) PROVE HoldsTyped'
    BY <2>4 DEF ExitLoop, Exited, Move, TypeOK
  <2>5. CASE WorkerPanic(w)
    BY <2>5 DEF WorkerPanic, Panic
  <2>. QED BY <1>2, <2>1, <2>2, <2>3, <2>4, <2>5 DEF WorkerStep
<1>3. ASSUME UNCHANGED workerVars PROVE HoldsTyped'
  BY <1>3
<1>4. ASSUME Start \/ SpawnStep PROVE HoldsTyped'
  BY <1>4, <1>1, <1>3 DEF Start, SpawnStep, CountWorker, SpawnDone
<1>5. ASSUME NEW g \in 1..MaxStarts, CheckHealth(g) \/ RestartWorkers(g) PROVE HoldsTyped'
  BY <1>5, <1>3 DEF CheckHealth, RestartWorkers
<1>6. CASE StopBegin \/ StopStep
  BY <1>6, <1>3
     DEF StopBegin, StopStep, StopCancel, StopCloseQueue, StopPanic, StopDrained,
         StopTimeout, StopCloseResults, StopCloseErrors, CloseOutput, Panic
<1>7. ASSUME NEW j \in Job, SubmitCheck(j) \/ SubmitCount(j) \/ SubmitReturn(j)
      PROVE  HoldsTyped'
  BY <1>7, <1>3
     DEF SubmitCheck, SubmitCount, SubmitReturn, SubmitSend, SubmitPanic,
         SubmitGiveUp, RolledBack, Panic
<1>8. ASSUME NEW c \in Channel, Take(c) PROVE HoldsTyped'
  BY <1>8, <1>3 DEF Take
<1>9. CASE UNCHANGED vars
  BY <1>9, <1>3 DEF vars
<1>. QED
  BY <1>2, <1>4, <1>5, <1>6, <1>7, <1>8, <1>9 DEF Next

\* Types: every reachable state of the pool is of the declared shape, whatever the
\* configuration; in particular no channel ever holds more than its capacity.
THEOREM TypeCorrect == Spec => []TypeOK
<1>1. TypeOK /\ HoldsTyped /\ [Next]_vars => TypeOK' /\ HoldsTyped'
  BY TypeStep, HoldsStep
<1>. QED
  BY <1>1, TypeInit, PTL DEF Spec

-----------------------------------------------------------------------------
(* Every task has one holder.                                              *)

\* What Head and Tail do to the queue, and what Append does.
LEMMA QueueReceive ==
    ASSUME TypeOK, taskQueue # <<>>
    PROVE  /\ Len(taskQueue) \in Nat \ {0}
           /\ Head(taskQueue) = taskQueue[1]
           /\ Len(Tail(taskQueue)) = Len(taskQueue) - 1
           /\ \A i \in 1..Len(Tail(taskQueue)) : Tail(taskQueue)[i] = taskQueue[i + 1]
BY HeadTailProperties, LenProperties, EmptySeq DEF TypeOK

LEMMA QueueSend ==
    ASSUME TypeOK, NEW j \in Job
    PROVE  /\ Len(taskQueue) \in Nat
           /\ Len(Append(taskQueue, j)) = Len(taskQueue) + 1
           /\ \A i \in 1..Len(taskQueue) : Append(taskQueue, j)[i] = taskQueue[i]
           /\ Append(taskQueue, j)[Len(taskQueue) + 1] = j
BY AppendProperties, LenProperties DEF TypeOK

LEMMA JobTypes ==
    ASSUME TypeOK
    PROVE  /\ \A i \in 1..Len(taskQueue) : taskQueue[i] \in Job
           /\ \A w \in Worker : wjob[w] # NoJob => wjob[w] \in Job
BY ElementOfSeq DEF TypeOK

\* A step that leaves the queue and the workers alone and moves only a job that is
\* not accepted, to a state that is not "accepted", keeps both invariants.
LEMMA SubmitKeepsHolders ==
    ASSUME TypeOK, OneHolder, AcceptedIsHeld,
           UNCHANGED <<taskQueue, wpc, wjob>>,
           NEW j \in Job, NEW s, sub[j] # "accepted", s # "accepted",
           sub' = [sub EXCEPT ![j] = s]
    PROVE  OneHolder' /\ AcceptedIsHeld'
<1>1. \A k \in Job : sub[k] = "accepted" => sub'[k] = "accepted"
  BY DEF TypeOK
<1>2. \A k \in Job : sub'[k] = "accepted" => sub[k] = "accepted"
  BY DEF TypeOK
<1>3. OneHolder'
  BY <1>1, JobTypes DEF OneHolder, InQueue
<1>4. AcceptedIsHeld'
  BY <1>2 DEF AcceptedIsHeld, InQueue
<1>. QED BY <1>3, <1>4

\* A step that leaves jobs, queue and tasks held alone and moves goroutines only
\* among the places with a task or among those without.
LEMMA MoveKeepsHolders ==
    ASSUME TypeOK, OneHolder, AcceptedIsHeld,
           UNCHANGED <<taskQueue, wjob, sub>>,
           \A w \in Worker : wpc'[w] \in HoldsTask <=> wpc[w] \in HoldsTask
    PROVE  OneHolder' /\ AcceptedIsHeld'
BY DEF OneHolder, AcceptedIsHeld, InQueue

LEMMA ReceiveKeepsHolders ==
    ASSUME TypeOK, OneHolder, AcceptedIsHeld, NEW w \in Worker, Receive(w)
    PROVE  OneHolder' /\ AcceptedIsHeld'
<1> DEFINE j == taskQueue[1]
<1>1. /\ taskQueue # <<>> /\ wpc[w] = "select"
      /\ wjob' = [wjob EXCEPT ![w] = j]
      /\ taskQueue' = Tail(taskQueue)
      /\ wpc' = [wpc EXCEPT ![w] = "received"]
      /\ UNCHANGED sub
  BY QueueReceive DEF Receive, Move, jobVars
<1>2. /\ Len(taskQueue) \in Nat \ {0}
      /\ Len(taskQueue') = Len(taskQueue) - 1
      /\ \A i \in 1..Len(taskQueue') : taskQueue'[i] = taskQueue[i + 1]
  BY <1>1, QueueReceive
<1>3. j \in Job /\ j # NoJob /\ sub[j] = "accepted" /\ wjob[w] = NoJob
  BY <1>1, <1>2, JobTypes, PoolAssumption DEF OneHolder, HoldsTask, Counting
<1>4. \A i \in 1..Len(taskQueue') : taskQueue'[i] # j
  BY <1>2 DEF OneHolder
<1>5. \A v \in Worker : wjob[v] # j
  BY <1>2, <1>3 DEF OneHolder, InQueue
<1>6. \A v \in Worker : wjob'[v] = IF v = w THEN j ELSE wjob[v]
  BY <1>1 DEF TypeOK
<1>7. \A v \in Worker : wpc'[v] = IF v = w THEN "received" ELSE wpc[v]
  BY <1>1 DEF TypeOK
<1>8. \A k : InQueue(k)' <=> (InQueue(k) /\ k # j)
  <2>1. ASSUME NEW k, InQueue(k)' PROVE InQueue(k) /\ k # j
    BY <2>1, <1>2, <1>4 DEF InQueue
  <2>2. ASSUME NEW k, InQueue(k), k # j PROVE InQueue(k)'
    <3>1. PICK i \in 1..Len(taskQueue) : taskQueue[i] = k
      BY <2>2 DEF InQueue
    <3>2. i # 1
      BY <2>2, <3>1
    <3>3. i - 1 \in 1..Len(taskQueue') /\ taskQueue'[i - 1] = k
      BY <3>1, <3>2, <1>2
    <3>. QED BY <3>3 DEF InQueue
  <2>. QED BY <2>1, <2>2
<1>9. OneHolder'
  <2>1. \A i, k \in 1..Len(taskQueue') : taskQueue'[i] = taskQueue'[k] => i = k
    BY <1>2 DEF OneHolder
  <2>2. \A i \in 1..Len(taskQueue') : sub'[taskQueue'[i]] = "accepted"
    BY <1>1, <1>2 DEF OneHolder
  <2>3. \A v \in Worker : wpc'[v] \in HoldsTask <=> wjob'[v] # NoJob
    BY <1>3, <1>6, <1>7 DEF OneHolder, HoldsTask
  <2>4. (\A v \in Worker : wjob[v] # NoJob =>
             sub[wjob[v]] = "accepted" /\ ~InQueue(wjob[v]))'
    BY <1>1, <1>3, <1>4, <1>6, <1>8 DEF OneHolder, InQueue
  <2>5. \A u, v \in Worker : wjob'[u] = wjob'[v] /\ wjob'[u] # NoJob => u = v
    BY <1>5, <1>6 DEF OneHolder
  <2>. QED BY <2>1, <2>2, <2>3, <2>4, <2>5 DEF OneHolder
<1>10. AcceptedIsHeld'
  <2> SUFFICES ASSUME NEW k \in Job, sub'[k] = "accepted", ~InQueue(k)'
               PROVE  \E v \in Worker : wjob'[v] = k
    BY DEF AcceptedIsHeld
  <2>1. CASE k = j
    BY <2>1, <1>6
  <2>2. CASE k # j
    <3>1. PICK v \in Worker : wjob[v] = k
      BY <2>2, <1>1, <1>8 DEF AcceptedIsHeld
    <3>2. v # w
      BY <3>1, <1>3, PoolAssumption
    <3>. QED BY <3>1, <3>2, <1>6
  <2>. QED BY <2>1, <2>2
<1>. QED BY <1>9, <1>10

LEMMA SendKeepsHolders ==
    ASSUME TypeOK, OneHolder, AcceptedIsHeld, NEW j \in Job, SubmitSend(j)
    PROVE  OneHolder' /\ AcceptedIsHeld'
<1>1. /\ sub[j] = "sending"
      /\ sub' = [sub EXCEPT ![j] = "accepted"]
      /\ taskQueue' = Append(taskQueue, j)
      /\ UNCHANGED <<wpc, wjob>>
  BY DEF SubmitSend, workerVars
<1>2. /\ Len(taskQueue) \in Nat
      /\ Len(taskQueue') = Len(taskQueue) + 1
      /\ \A i \in 1..Len(taskQueue) : taskQueue'[i] = taskQueue[i]
      /\ taskQueue'[Len(taskQueue) + 1] = j
  BY <1>1, QueueSend
<1>3. ~InQueue(j) /\ \A w \in Worker : wjob[w] # j
  BY <1>1, PoolAssumption DEF OneHolder, InQueue
<1>4. \A k \in Job : sub'[k] = IF k = j THEN "accepted" ELSE sub[k]
  BY <1>1 DEF TypeOK
<1>5. \A k : InQueue(k)' <=> (InQueue(k) \/ k = j)
  <2>1. ASSUME NEW k, InQueue(k)' PROVE InQueue(k) \/ k = j
    BY <2>1, <1>2 DEF InQueue
  <2>2. ASSUME NEW k, InQueue(k) \/ k = j PROVE InQueue(k)'
    BY <2>2, <1>2 DEF InQueue
  <2>. QED BY <2>1, <2>2
<1>6. OneHolder'
  <2>1. \A i, k \in 1..Len(taskQueue') : taskQueue'[i] = taskQueue'[k] => i = k
    BY <1>2, <1>3 DEF OneHolder, InQueue
  <2>2. \A i \in 1..Len(taskQueue') : sub'[taskQueue'[i]] = "accepted"
    BY <1>2, <1>4, JobTypes DEF OneHolder
  <2>3. (\A w \in Worker : wjob[w] # NoJob =>
             sub[wjob[w]] = "accepted" /\ ~InQueue(wjob[w]))'
    BY <1>1, <1>3, <1>4, <1>5, JobTypes DEF OneHolder, InQueue
  <2>. QED BY <2>1, <2>2, <2>3, <1>1 DEF OneHolder
<1>7. AcceptedIsHeld'
  BY <1>1, <1>4, <1>5 DEF AcceptedIsHeld
<1>. QED BY <1>6, <1>7

\* CompleteTask and FailTask: the worker lets go of its task.
LEMMA FinishKeepsHolders ==
    ASSUME TypeOK, OneHolder, AcceptedIsHeld, NEW w \in Worker,
           wpc[w] \in HoldsTask, NEW s, s # "accepted",
           sub' = [sub EXCEPT ![wjob[w]] = s],
           wjob' = [wjob EXCEPT ![w] = NoJob],
           wpc' = [wpc EXCEPT ![w] = "select"],
           UNCHANGED taskQueue
    PROVE  OneHolder' /\ AcceptedIsHeld'
<1> DEFINE j == wjob[w]
<1>1. j \in Job /\ j # NoJob /\ ~InQueue(j)
  BY JobTypes DEF OneHolder
<1>2. \A k \in Job : sub'[k] = IF k = j THEN s ELSE sub[k]
  BY DEF TypeOK
<1>3. \A v \in Worker : /\ wjob'[v] = IF v = w THEN NoJob ELSE wjob[v]
                        /\ wpc'[v] = IF v = w THEN "select" ELSE wpc[v]
  BY DEF TypeOK
<1>4. \A v \in Worker : v # w => wjob[v] # j
  BY <1>1 DEF OneHolder
<1>5. \A k : InQueue(k)' <=> InQueue(k)
  BY DEF InQueue
<1>6. OneHolder'
  <2>1. \A i \in 1..Len(taskQueue) : sub'[taskQueue[i]] = "accepted"
    BY <1>1, <1>2, JobTypes DEF OneHolder, InQueue
  <2>2. \A v \in Worker : wpc'[v] \in HoldsTask <=> wjob'[v] # NoJob
    BY <1>3 DEF OneHolder, HoldsTask, Counting
  <2>3. (\A v \in Worker : wjob[v] # NoJob =>
             sub[wjob[v]] = "accepted" /\ ~InQueue(wjob[v]))'
    BY <1>2, <1>3, <1>4, <1>5, JobTypes DEF OneHolder, InQueue
  <2>4. \A u, v \in Worker : wjob'[u] = wjob'[v] /\ wjob'[u] # NoJob => u = v
    BY <1>3 DEF OneHolder
  <2>. QED BY <2>1, <2>2, <2>3, <2>4 DEF OneHolder
<1>7. AcceptedIsHeld'
  BY <1>2, <1>3, <1>5 DEF AcceptedIsHeld
<1>. QED BY <1>6, <1>7

LEMMA HolderStep ==
    TypeOK /\ OneHolder /\ AcceptedIsHeld /\ [Next]_vars => OneHolder' /\ AcceptedIsHeld'
<1> SUFFICES ASSUME TypeOK, OneHolder, AcceptedIsHeld, [Next]_vars
             PROVE  OneHolder' /\ AcceptedIsHeld'
  OBVIOUS
<1> USE DEF jobVars, workerVars
<1>1. CASE SpawnWorker
  <2>1. \A w \in Worker : wpc'[w] \in HoldsTask <=> wpc[w] \in HoldsTask
    BY <1>1 DEF SpawnWorker, TypeOK, Unborn, At, HoldsTask, Counting
  <2>. QED BY <1>1, <2>1, MoveKeepsHolders DEF SpawnWorker
<1>2. ASSUME UNCHANGED <<taskQueue, wpc, wjob, sub>>
      PROVE  OneHolder' /\ AcceptedIsHeld'
  BY <1>2, MoveKeepsHolders
<1>3. ASSUME Start \/ SpawnStep PROVE OneHolder' /\ AcceptedIsHeld'
  BY <1>3, <1>1, <1>2 DEF Start, SpawnStep, CountWorker, SpawnDone
<1>4. ASSUME NEW g \in 1..MaxStarts, CheckHealth(g) \/ RestartWorkers(g)
      PROVE  OneHolder' /\ AcceptedIsHeld'
  BY <1>4, <1>2 DEF CheckHealth, RestartWorkers
<1>5. CASE StopBegin \/ StopStep
  BY <1>5, <1>2
     DEF StopBegin, StopStep, StopCancel, StopCloseQueue, StopPanic, StopDrained,
         StopTimeout, StopCloseResults, StopCloseErrors, CloseOutput, Panic
<1>6. ASSUME NEW j \in Job, SubmitCheck(j) \/ SubmitCount(j) \/ SubmitReturn(j)
      PROVE  OneHolder' /\ AcceptedIsHeld'
  <2>1. CASE SubmitCheck(j)
    <3> DEFINE s == IF running THEN "checked" ELSE "rejected"
    <3>1. s # "accepted" /\ sub[j] # "accepted" /\ sub' = [sub EXCEPT ![j] = s]
      BY <2>1 DEF SubmitCheck
    <3>2. UNCHANGED <<taskQueue, wpc, wjob>>
      BY <2>1 DEF SubmitCheck
    <3> HIDE DEF s
    <3>. QED BY <3>1, <3>2, SubmitKeepsHolders
  <2>2. CASE SubmitCount(j)
    BY <2>2, SubmitKeepsHolders DEF SubmitCount
  <2>3. CASE SubmitSend(j)
    BY <2>3, SendKeepsHolders
  <2>4. CASE SubmitPanic(j)
    BY <2>4, <1>2 DEF SubmitPanic, Panic
  <2>5. ASSUME SubmitGiveUp(j)
        PROVE  OneHolder' /\ AcceptedIsHeld'
    BY <2>5, SubmitKeepsHolders DEF SubmitGiveUp
  <2>. QED
    BY <1>6, <2>1, <2>2, <2>3, <2>4, <2>5 DEF SubmitReturn
<1>7. ASSUME NEW w \in Worker, WorkerStep(w) PROVE OneHolder' /\ AcceptedIsHeld'
  <2>1. CASE Receive(w)
    BY <2>1, ReceiveKeepsHolders
  <2>2. ASSUME CountDequeue(w) \/ BeginTask(w) \/ EndTask(w) \/ ExitLoop(w) \/ Exited(w)
        PROVE  OneHolder' /\ AcceptedIsHeld'
    <3>1. \A v \in Worker : wpc'[v] \in HoldsTask <=> wpc[v] \in HoldsTask
      BY <2>2 DEF CountDequeue, BeginTask, EndTask, ExitLoop, Exited, Move, TypeOK,
                  HoldsTask, Counting
    <3>2. UNCHANGED <<taskQueue, wjob, sub>>
      BY <2>2 DEF CountDequeue, BeginTask, EndTask, ExitLoop, Exited
    <3>. QED BY <3>1, <3>2, MoveKeepsHolders
  <2>3. CASE CompleteTask(w)
    BY <2>3, FinishKeepsHolders DEF CompleteTask, Move, HoldsTask
  <2>4. CASE FailTask(w)
    <3> DEFINE s == IF retries[wjob[w]] < MaxRetries THEN "backoff" ELSE "failed"
    <3>1. /\ wpc[w] \in HoldsTask
          /\ sub' = [sub EXCEPT ![wjob[w]] = s]
          /\ wjob' = [wjob EXCEPT ![w] = NoJob]
          /\ wpc' = [wpc EXCEPT ![w] = "select"]
          /\ UNCHANGED taskQueue
      BY <2>4 DEF FailTask, Move, HoldsTask
    <3>2. s # "accepted"
      OBVIOUS
    <3> HIDE DEF s
    <3>. QED BY <3>1, <3>2, FinishKeepsHolders
  <2>5. CASE WorkerPanic(w)
    BY <2>5, <1>2 DEF WorkerPanic, Panic
  <2>. QED BY <1>7, <2>1, <2>2, <2>3, <2>4, <2>5 DEF WorkerStep
<1>8. ASSUME NEW c \in Channel, Take(c) PROVE OneHolder' /\ AcceptedIsHeld'
  BY <1>8, <1>2 DEF Take
<1>9. CASE UNCHANGED vars
  BY <1>9, <1>2 DEF vars
<1>. QED
  BY <1>3, <1>4, <1>5, <1>6, <1>7, <1>8, <1>9 DEF Next

\* Tasks are neither duplicated nor lost inside the pool: an accepted task is in the
\* queue once or with one worker, never both, under any interleaving of submitters,
\* workers, retries and Stop.
THEOREM TasksHaveOneHolder == Spec => [](OneHolder /\ AcceptedIsHeld)
<1>1. Init => OneHolder /\ AcceptedIsHeld
  BY EmptySeq DEF Init, OneHolder, AcceptedIsHeld, InQueue, HoldsTask, Counting
<1>. QED
  BY <1>1, HolderStep, TypeCorrect, PTL DEF Spec

\* A task that Submit has accepted is with some worker or waits in the queue until its
\* attempt is over: no interleaving loses it.
THEOREM AcceptedNeverLost == Spec => []AcceptedIsHeld
BY TasksHaveOneHolder, PTL

-----------------------------------------------------------------------------
(* The worker pool implements TaskLedger: the queue is what waits, the     *)
(* tasks the workers hold are what runs, completed and finally failed      *)
(* tasks are over.  Sending is Accept, receiving is Begin, completing and  *)
(* failing are End; every other step leaves the ledger alone.              *)

ledgerVars == <<taskQueue, HeldTasks, OverTasks>>

\* One step of the ledger, or none: the goal of every case below.
LedgerStep == [Ledger!Next]_Ledger!ledger

LEMMA LedgerStutters == ledgerVars' = ledgerVars => LedgerStep
BY DEF ledgerVars, LedgerStep, Ledger!ledger

\* A step that leaves queue and workers' tasks alone, and every job over or not over
\* as it was, leaves the ledger alone.
LEMMA LedgerUntouched ==
    ASSUME UNCHANGED <<taskQueue, wjob>>,
           \A j \in Job : sub'[j] \in {"completed", "failed"} <=> sub[j] \in {"completed", "failed"}
    PROVE  LedgerStep
<1>1. HeldTasks' = HeldTasks
  BY DEF HeldTasks
<1>2. OverTasks' = OverTasks
  BY DEF OverTasks
<1>. QED BY <1>1, <1>2, LedgerStutters DEF ledgerVars

LEMMA InLedger ==
    ASSUME TypeOK, OneHolder
    PROVE  /\ \A j \in Job : Ledger!Waits(j) <=> InQueue(j)
           /\ \A j \in HeldTasks : j \in Job /\ sub[j] = "accepted"
           /\ \A j \in HeldTasks : ~InQueue(j)
<1>1. \A j \in Job : Ledger!Waits(j) <=> InQueue(j)
  BY DEF Ledger!Waits, InQueue
<1>2. \A w \in Worker : wjob[w] # NoJob => wjob[w] \in Job
  BY DEF TypeOK
<1>. QED BY <1>1, <1>2 DEF HeldTasks, OneHolder

\* The ledger's FiniteSets is the pool's.
LEMMA SameCardinality == \A S : Ledger!Cardinality(S) = Cardinality(S)
BY DEF Ledger!Cardinality, Cardinality, Ledger!IsFiniteSet, IsFiniteSet

\* A worker in its select holds nothing, so fewer tasks are held than there are workers.
LEMMA RoomToBegin ==
    ASSUME NEW w \in Worker, wjob[w] = NoJob
    PROVE  Cardinality(HeldTasks) < Cardinality(Worker)
<1> DEFINE Holders == {v \in Worker : wjob[v] # NoJob}
           f == [v \in Holders |-> wjob[v]]
<1>1. f \in Surjection(Holders, HeldTasks)
  BY DEF HeldTasks, Surjection
<1>2. IsFiniteSet(Worker \ {w}) /\ Cardinality(Worker \ {w}) = Cardinality(Worker) - 1
  BY FS_RemoveElement, PoolAssumption
<1>3. Holders \in SUBSET (Worker \ {w})
  OBVIOUS
<1>4. IsFiniteSet(Holders) /\ Cardinality(Holders) <= Cardinality(Worker) - 1
  BY <1>2, <1>3, FS_Subset
<1>5. IsFiniteSet(HeldTasks) /\ Cardinality(HeldTasks) <= Cardinality(Holders)
  BY <1>1, <1>4, FS_Surjection
<1>6. /\ Cardinality(HeldTasks) \in Nat /\ Cardinality(Holders) \in Nat
      /\ Cardinality(Worker) \in Nat
  BY <1>4, <1>5, PoolAssumption, FS_CardinalityType
<1>. QED BY <1>4, <1>5, <1>6

LEMMA SendAccepts ==
    ASSUME TypeOK, OneHolder, NEW j \in Job, SubmitSend(j)
    PROVE  LedgerStep
<1>1. /\ sub[j] = "sending" /\ Len(taskQueue) < QueueSize
      /\ taskQueue' = Append(taskQueue, j)
      /\ sub' = [sub EXCEPT ![j] = "accepted"]
      /\ UNCHANGED wjob
  BY DEF SubmitSend, QueueHasRoom, workerVars
<1>2. ~InQueue(j)
  BY <1>1 DEF OneHolder, InQueue
<1>3. j \notin HeldTasks \cup OverTasks
  BY <1>1, InLedger DEF OverTasks
<1>4. UNCHANGED HeldTasks
  BY <1>1 DEF HeldTasks
<1>5. UNCHANGED OverTasks
  BY <1>1 DEF OverTasks, TypeOK
<1>6. Ledger!Accept(j)
  BY <1>1, <1>2, <1>3, <1>4, <1>5, InLedger DEF Ledger!Accept
<1>. QED BY <1>6 DEF LedgerStep, Ledger!Next

LEMMA ReceiveBegins ==
    ASSUME TypeOK, OneHolder, NEW w \in Worker, Receive(w)
    PROVE  LedgerStep
<1> DEFINE j == Head(taskQueue)
<1>1. /\ wpc[w] = "select" /\ taskQueue # <<>>
      /\ wjob' = [wjob EXCEPT ![w] = j]
      /\ taskQueue' = Tail(taskQueue)
      /\ UNCHANGED sub
  BY DEF Receive, jobVars
<1>2. j \in Job /\ j # NoJob
  BY <1>1, HeadTailProperties, PoolAssumption DEF TypeOK
<1>3. wjob[w] = NoJob
  BY <1>1 DEF OneHolder, HoldsTask, Counting
<1>4. HeldTasks' = HeldTasks \cup {j}
  <2>1. \A v \in Worker : wjob'[v] = IF v = w THEN j ELSE wjob[v]
    BY <1>1 DEF TypeOK
  <2> HIDE DEF j
  <2>. QED BY <2>1, <1>2, <1>3 DEF HeldTasks
<1>5. UNCHANGED OverTasks
  BY <1>1 DEF OverTasks
<1>6. Cardinality(HeldTasks) < Cardinality(Worker)
  BY <1>3, RoomToBegin
<1>7. Ledger!Begin
  BY <1>1, <1>4, <1>5, <1>6, SameCardinality DEF Ledger!Begin
<1>. QED BY <1>7 DEF LedgerStep, Ledger!Next

\* CompleteTask and FailTask: the worker lets go of its task, which is over or not.
LEMMA FinishEnds ==
    ASSUME TypeOK, OneHolder, NEW w \in Worker,
           wpc[w] \in HoldsTask, NEW s,
           sub' = [sub EXCEPT ![wjob[w]] = s],
           wjob' = [wjob EXCEPT ![w] = NoJob],
           UNCHANGED taskQueue
    PROVE  LedgerStep
<1> DEFINE j == wjob[w]
<1>1. j \in Job /\ j # NoJob /\ sub[j] = "accepted"
  BY JobTypes DEF OneHolder
<1>2. j \in HeldTasks
  BY <1>1 DEF HeldTasks
<1>3. HeldTasks' = HeldTasks \ {j}
  <2>1. \A v \in Worker : wjob'[v] = IF v = w THEN NoJob ELSE wjob[v]
    BY DEF TypeOK
  <2>2. \A v \in Worker : v # w => wjob[v] # j
    BY <1>1 DEF OneHolder
  <2>. QED BY <2>1, <2>2 DEF HeldTasks
<1>4. \A k \in Job : sub'[k] = IF k = j THEN s ELSE sub[k]
  BY <1>1 DEF TypeOK
<1>5. OverTasks' \in {OverTasks, OverTasks \cup {j}}
  <2>1. j \notin OverTasks
    BY <1>1 DEF OverTasks
  <2>2. CASE s \in {"completed", "failed"}
    BY <2>2, <1>1, <1>4 DEF OverTasks
  <2>3. CASE s \notin {"completed", "failed"}
    BY <2>1, <2>3, <1>4 DEF OverTasks
  <2>. QED BY <2>2, <2>3
<1>6. Ledger!End(j)
  BY <1>2, <1>3, <1>5 DEF Ledger!End
<1>. QED BY <1>1, <1>6 DEF LedgerStep, Ledger!Next

\* A Submit call that is not over moves to a place that is not either.
LEMMA SubmitUntouched ==
    ASSUME TypeOK, UNCHANGED <<taskQueue, wjob>>,
           NEW j \in Job, NEW s,
           sub[j] \notin {"completed", "failed"}, s \notin {"completed", "failed"},
           sub' = [sub EXCEPT ![j] = s]
    PROVE  LedgerStep
<1>1. \A k \in Job : sub'[k] = IF k = j THEN s ELSE sub[k]
  BY DEF TypeOK
<1>. QED BY <1>1, LedgerUntouched

LEMMA LedgerSimulated == TypeOK /\ OneHolder /\ [Next]_vars => LedgerStep
<1> SUFFICES ASSUME TypeOK, OneHolder, [Next]_vars PROVE LedgerStep
  OBVIOUS
<1> USE DEF jobVars, workerVars
<1>1. ASSUME UNCHANGED <<taskQueue, wjob, sub>> PROVE LedgerStep
  BY <1>1, LedgerUntouched
<1>2. ASSUME Start \/ SpawnStep PROVE LedgerStep
  BY <1>2, <1>1 DEF Start, SpawnStep, SpawnWorker, CountWorker, SpawnDone
<1>3. ASSUME NEW g \in 1..MaxStarts, CheckHealth(g) \/ RestartWorkers(g) PROVE LedgerStep
  BY <1>3, <1>1 DEF CheckHealth, RestartWorkers
<1>4. CASE StopBegin \/ StopStep
  BY <1>4, <1>1
     DEF StopBegin, StopStep, StopCancel, StopCloseQueue, StopPanic, StopDrained,
         StopTimeout, StopCloseResults, StopCloseErrors, CloseOutput, Panic
<1>5. ASSUME NEW j \in Job, SubmitCheck(j) \/ SubmitCount(j) \/ SubmitReturn(j)
      PROVE  LedgerStep
  <2>1. CASE SubmitCheck(j)
    <3> DEFINE s == IF running THEN "checked" ELSE "rejected"
    <3>1. /\ sub[j] \notin {"completed", "failed"} /\ s \notin {"completed", "failed"}
          /\ sub' = [sub EXCEPT ![j] = s]
          /\ UNCHANGED <<taskQueue, wjob>>
      BY <2>1 DEF SubmitCheck
    <3> HIDE DEF s
    <3>. QED BY <3>1, SubmitUntouched
  <2>2. CASE SubmitCount(j)
    BY <2>2, SubmitUntouched DEF SubmitCount
  <2>3. CASE SubmitSend(j)
    BY <2>3, SendAccepts
  <2>4. CASE SubmitPanic(j)
    BY <2>4, <1>1 DEF SubmitPanic, Panic
  <2>5. ASSUME SubmitGiveUp(j)
        PROVE  LedgerStep
    BY <2>5, SubmitUntouched DEF SubmitGiveUp
  <2>. QED
    BY <1>5, <2>1, <2>2, <2>3, <2>4, <2>5 DEF SubmitReturn
<1>6. ASSUME NEW w \in Worker, WorkerStep(w) PROVE LedgerStep
  <2>1. CASE Receive(w)
    BY <2>1, ReceiveBegins
  <2>2. ASSUME CountDequeue(w) \/ BeginTask(w) \/ EndTask(w) \/ ExitLoop(w) \/ Exited(w)
        PROVE  LedgerStep
    BY <2>2, <1>1 DEF CountDequeue, BeginTask, EndTask, ExitLoop, Exited
  <2>3. CASE CompleteTask(w)
    BY <2>3, FinishEnds DEF CompleteTask, HoldsTask
  <2>4. CASE FailTask(w)
    <3> DEFINE s == IF retries[wjob[w]] < MaxRetries THEN "backoff" ELSE "failed"
    <3>1. /\ wpc[w] \in HoldsTask
          /\ sub' = [sub EXCEPT ![wjob[w]] = s]
          /\ wjob' = [wjob EXCEPT ![w] = NoJob]
          /\ UNCHANGED taskQueue
      BY <2>4 DEF FailTask, HoldsTask
    <3> HIDE DEF s
    <3>. QED BY <3>1, FinishEnds
  <2>5. CASE WorkerPanic(w)
    BY <2>5, <1>1 DEF WorkerPanic, Panic
  <2>. QED BY <1>6, <2>1, <2>2, <2>3, <2>4, <2>5 DEF WorkerStep
<1>7. ASSUME NEW c \in Channel, Take(c) PROVE LedgerStep
  BY <1>7, <1>1 DEF Take
<1>8. CASE UNCHANGED vars
  BY <1>8, <1>1 DEF vars
<1>. QED
  BY <1>2, <1>3, <1>4, <1>5, <1>6, <1>7, <1>8 DEF Next

\* The pool refines the ledger: for every number of jobs, workers and queue slots, every
\* behaviour of Submit, retries, workers, health monitor and Stop is one of TaskLedger.
THEOREM PoolKeepsLedger == Spec => KeepsLedger
<1>1. Init => Ledger!Init
  <2> SUFFICES ASSUME Init PROVE Ledger!Init
    OBVIOUS
  <2>1. taskQueue = <<>> /\ HeldTasks = {}
    BY DEF Init, HeldTasks
  <2>2. OverTasks = {}
    BY DEF Init, OverTasks
  <2>. QED BY <2>1, <2>2 DEF Ledger!Init
<1>2. TypeOK /\ OneHolder /\ [Next]_vars => [Ledger!Next]_Ledger!ledger
  BY LedgerSimulated DEF LedgerStep
<1>. QED
  BY <1>1, <1>2, TypeCorrect, TasksHaveOneHolder, PTL DEF Spec, KeepsLedger, Ledger!Spec
=============================================================================
