---------------------------- MODULE WorkerProofs ----------------------------
(***************************************************************************)
(* Proofs about Worker for every set of tasks, all thresholds of the       *)
(* breaker and all bounds: types, and that the pool is told of a task what *)
(* the state holds of it, recovered panics apart.                          *)
(***************************************************************************)
EXTENDS Worker, GraphStateProofs

\* The worker has a task exactly while ProcessTask has one to work on.
Busy == {"admitted", "executing", "adding", "recording"}

WorkerInv ==
    /\ TypeOK
    /\ wpc \in Busy <=> task # NoTask
    /\ DOMAIN state.tasks = TaskID
    /\ wpc = "adding" => Len(state.results) < MaxResults
    /\ ToldAsStored

LEMMA Bounds ==
    /\ FailureThreshold \in Nat /\ FailureThreshold > 0 /\ SuccessThreshold \in Nat
    /\ MaxChecks \in Nat /\ MaxResults \in Nat /\ NoTask \notin TaskID
    /\ MaxPanics \in Nat
BY BreakerAssumption, WorkerAssumption

-----------------------------------------------------------------------------
(* The breaker stays a breaker whatever its methods are given.             *)

LEMMA ProbedTyped == ASSUME NEW cb \in Breaker PROVE Probed(cb) \in Breaker
BY DEF Probed, Breaker, BreakerState

LEMMA SuccessTyped == ASSUME NEW cb \in Breaker PROVE RecordSuccess(cb) \in Breaker
<1> USE DEF Breaker, BreakerState
<1>1. CASE cb.state = "closed"
  BY <1>1 DEF RecordSuccess
<1>2. CASE cb.state = "half-open"
  <2> DEFINE shut == [cb EXCEPT !.state = "closed", !.failures = 0]
             closed == [shut EXCEPT !.successCount = 0]
             counted == [cb EXCEPT !.successCount = cb.successCount + 1]
  <2>1. shut \in Breaker
    OBVIOUS
  <2>2. closed \in Breaker
    <3> HIDE DEF shut
    <3>. QED BY <2>1
  <2>3. counted \in Breaker
    OBVIOUS
  <2>4. RecordSuccess(cb) \in {closed, counted}
    BY <1>2 DEF RecordSuccess
  <2> HIDE DEF closed, counted
  <2>. QED BY <2>2, <2>3, <2>4
<1>3. CASE cb.state = "open"
  BY <1>3 DEF RecordSuccess
<1>. QED BY <1>1, <1>2, <1>3

LEMMA FailedTyped == ASSUME NEW cb \in Breaker PROVE Failed(cb) \in Breaker
<1> DEFINE more == [cb EXCEPT !.failures = cb.failures + 1]
           counted == [more EXCEPT !.cooled = FALSE]
           capped(b) == [b EXCEPT !.failures = FailureThreshold]
<1>0. more \in Breaker
  BY DEF Breaker
<1>1. counted \in Breaker
  <2> HIDE DEF more
  <2>. QED BY <1>0 DEF Breaker
<1>2. RecordFailure(cb) \in Breaker
  <2>1. /\ [counted EXCEPT !.state = "open", !.successCount = 0] \in Breaker
        /\ [counted EXCEPT !.state = "open"] \in Breaker
    <3> HIDE DEF counted
    <3>. QED BY <1>1 DEF Breaker, BreakerState
  <2>. QED BY <1>1, <2>1 DEF RecordFailure
<1>3. \A b \in Breaker : capped(b) \in Breaker
  BY Bounds DEF Breaker
<1>. QED BY <1>2, <1>3 DEF Failed

-----------------------------------------------------------------------------
(* The first state of the task list.                                       *)

LEMMA FirstState ==
    LET s == [NewGraphState EXCEPT !.tasks = [t \in TaskID |-> NewTask]] IN
    /\ IsGraphState(s) /\ s.tasks = [t \in TaskID |-> NewTask] /\ s.results = <<>>
<1> DEFINE tasks == [t \in TaskID |-> NewTask]
           s == [NewGraphState EXCEPT !.tasks = tasks]
<1>1. tasks \in [TaskID -> ResearchTask]
  BY DEF NewTask, ResearchTask, TaskStatus
<1>2. NewGraphState \in GraphStates(DOMAIN NewGraphState.tasks)
  BY StartState, StateFields
<1> HIDE DEF tasks
<1>3. s \in GraphStates(TaskID) /\ s.tasks = tasks /\ s.results = <<>>
  BY <1>1, <1>2, StartState DEF GraphStates
<1>. QED BY <1>3 DEF IsGraphState, tasks

LEMMA InvInit == Init => WorkerInv
<1> SUFFICES ASSUME Init PROVE WorkerInv
  OBVIOUS
<1>1. IsGraphState(state) /\ state.tasks = [t \in TaskID |-> NewTask] /\ state.results = <<>>
  BY FirstState DEF Init
<1>2. breaker \in Breaker
  BY DEF Init, NewBreaker, Breaker, BreakerState
<1>3. Len(state.results) = 0
  BY <1>1
<1>4. TypeOK
  <2>1. 0 \in 0..MaxChecks /\ Len(state.results) <= MaxResults
    BY <1>3, Bounds
  <2>. QED BY <1>1, <1>2, <2>1 DEF Init, TypeOK, Place
<1>5. ToldAsStored
  <2>1. \A t \in TaskID : state.tasks[t].results = 0 /\ ResultsFor(state, t) = 0
    BY <1>1, NoResults DEF NewTask
  <2>. QED BY <2>1 DEF Init, ToldAsStored, Pending
<1>. QED BY <1>1, <1>4, <1>5 DEF Init, WorkerInv, Busy

-----------------------------------------------------------------------------
(* The steps that leave the state of the task alone.                       *)

\* Such a step keeps ToldAsStored, unless it ends a ProcessTask that has stored.
LEMMA NothingStored ==
    ASSUME WorkerInv, state' = state, UNCHANGED returns,
           wpc \notin {"adding", "recording"}, wpc' \notin {"adding", "recording"}
    PROVE  ToldAsStored'
BY DEF WorkerInv, ToldAsStored, Pending, ResultsFor, returns

LEMMA WorkerStaysPut ==
    ASSUME WorkerInv, UNCHANGED <<wpc, task, state, returns>>
    PROVE  ToldAsStored'
BY DEF WorkerInv, ToldAsStored, Pending, ResultsFor, returns

LEMMA AdmissionStep ==
    ASSUME WorkerInv, NEW t \in TaskID, ProcessTask(t)
    PROVE  WorkerInv'
<1>1. breaker' \in Breaker
  BY ProbedTyped DEF WorkerInv, TypeOK, ProcessTask
<1>2. ToldAsStored'
  BY NothingStored DEF ProcessTask, ReturnError, Return
<1>3. /\ wpc' \in Place /\ task' \in TaskID \cup {NoTask} /\ (wpc' \in Busy <=> task' # NoTask)
      /\ wpc' # "adding" /\ UNCHANGED returns
  BY Bounds DEF ProcessTask, ReturnError, Return, Place, Busy
<1>. QED BY <1>1, <1>2, <1>3 DEF WorkerInv, TypeOK, ProcessTask, returns

\* The goroutines of the health check are counted within their bound.
LEMMA ChecksTyped ==
    ASSUME WorkerInv, StaleStartsCheck
    PROVE  checks' \in 0..MaxChecks
BY Bounds DEF WorkerInv, TypeOK, StaleStartsCheck

LEMMA CheckHealthStep ==
    ASSUME WorkerInv, CheckHealth
    PROVE  WorkerInv'
<1>1. checks' \in 0..MaxChecks
  BY ChecksTyped DEF CheckHealth
<1>2. ToldAsStored'
  BY NothingStored DEF CheckHealth, ReturnError, Return
<1>3. /\ wpc' \in Place /\ task' \in TaskID \cup {NoTask} /\ (wpc' \in Busy <=> task' # NoTask)
      /\ wpc' # "adding" /\ UNCHANGED returns /\ heavy' \in BOOLEAN
  BY Bounds DEF WorkerInv, TypeOK, CheckHealth, ReturnError, Return, Place, Busy
<1>. QED BY <1>1, <1>2, <1>3 DEF WorkerInv, TypeOK, CheckHealth, returns

LEMMA EndsBadlyTyped ==
    ASSUME WorkerInv, EndsBadly
    PROVE  breaker' \in Breaker /\ heavy' \in BOOLEAN /\ task \in TaskID
BY FailedTyped DEF WorkerInv, TypeOK, EndsBadly, Busy

LEMMA ResearchFailsStep ==
    ASSUME WorkerInv, ResearchFails
    PROVE  WorkerInv'
<1>1. breaker' \in Breaker /\ heavy' \in BOOLEAN
  BY EndsBadlyTyped DEF ResearchFails
<1>2. ToldAsStored'
  BY NothingStored DEF ResearchFails, EndsBadly, ReturnError, Return
<1>3. UNCHANGED <<isHealthy, stale, checks, state, told, blank>> /\ wpc' = "idle" /\ task' = NoTask
  BY DEF ResearchFails, EndsBadly, ReturnError, Return, returns
<1>. QED
  BY <1>1, <1>2, <1>3, Bounds DEF WorkerInv, TypeOK, Place, Busy

\* Both sides of ToldAsStored grow by one for the task whose research has panicked.
LEMMA ResearchPanicsStep ==
    ASSUME WorkerInv, ResearchPanics
    PROVE  WorkerInv'
<1>1. breaker' \in Breaker /\ heavy' \in BOOLEAN /\ task \in TaskID
  BY EndsBadlyTyped DEF ResearchPanics
<1>2. /\ UNCHANGED <<isHealthy, stale, checks, state>>
      /\ wpc = "executing" /\ wpc' = "idle" /\ task' = NoTask
      /\ told' = [told EXCEPT ![task] = @ + 1]
      /\ blank' = [blank EXCEPT ![task] = @ + 1]
  BY DEF ResearchPanics, EndsBadly, ReturnNothing, Return
<1>3. told \in [TaskID -> Nat] /\ blank \in [TaskID -> Nat] /\ IsGraphState(state)
  BY DEF WorkerInv, TypeOK
<1>4. told' \in [TaskID -> Nat] /\ blank' \in [TaskID -> Nat]
  BY <1>1, <1>2, <1>3
<1>5. ToldAsStored'
  <2> SUFFICES ASSUME NEW t \in TaskID
               PROVE  /\ told'[t] = ResultsFor(state, t) + blank'[t]
                      /\ state.tasks[t].results = ResultsFor(state, t)
    <3>1. \A t \in TaskID : /\ Pending("recording", t)' = 0 /\ Pending("adding", t)' = 0
                            /\ told'[t] \in Nat /\ ResultsFor(state, t) \in Nat
      BY <1>2, <1>3, <1>4, ResultsForType DEF Pending
    <3>. QED BY <1>2, <1>3, <3>1 DEF ToldAsStored
  <2>1. told[t] = ResultsFor(state, t) + blank[t] /\ state.tasks[t].results = ResultsFor(state, t)
    <3>1. Pending("recording", t) = 0 /\ Pending("adding", t) = 0
      BY <1>2 DEF Pending
    <3>2. told[t] \in Nat /\ ResultsFor(state, t) \in Nat
      BY <1>3, ResultsForType
    <3>3. /\ told[t] + Pending("recording", t) = ResultsFor(state, t) + blank[t]
          /\ state.tasks[t].results = ResultsFor(state, t) + Pending("adding", t)
      BY DEF WorkerInv, ToldAsStored
    <3>. QED BY <3>1, <3>2, <3>3
  <2>2. told[t] \in Nat /\ blank[t] \in Nat /\ ResultsFor(state, t) \in Nat
    BY <1>3, ResultsForType
  <2>3. CASE t = task
    <3>1. told'[t] = told[t] + 1 /\ blank'[t] = blank[t] + 1
      BY <1>1, <1>2, <1>3, <2>3
    <3>. QED BY <2>1, <2>2, <3>1
  <2>4. CASE t # task
    BY <1>2, <1>3, <2>1, <2>4
  <2>. QED BY <2>3, <2>4
<1>. QED
  BY <1>1, <1>2, <1>5, <1>4, Bounds DEF WorkerInv, TypeOK, Place, Busy

LEMMA HealthStep ==
    ASSUME WorkerInv, PerformHealthCheck \/ GetStats \/ CheckGetsStale \/ BreakerCools
    PROVE  WorkerInv'
<1>1. UNCHANGED <<wpc, task, state, returns, heavy>>
  BY DEF PerformHealthCheck, GetStats, CheckGetsStale, BreakerCools
<1>2. ToldAsStored'
  BY <1>1, WorkerStaysPut
<1>3. breaker' \in Breaker
  BY DEF WorkerInv, TypeOK, PerformHealthCheck, GetStats, CheckGetsStale, BreakerCools, Breaker
<1>4. checks' \in 0..MaxChecks
  <2>1. CASE PerformHealthCheck
    BY <2>1, Bounds DEF WorkerInv, TypeOK, PerformHealthCheck
  <2>2. CASE GetStats
    BY <2>2, ChecksTyped DEF GetStats
  <2>3. CASE CheckGetsStale \/ BreakerCools
    BY <2>3 DEF WorkerInv, TypeOK, CheckGetsStale, BreakerCools
  <2>. QED BY <2>1, <2>2, <2>3
<1>5. isHealthy' \in BOOLEAN /\ stale' \in BOOLEAN
  BY DEF WorkerInv, TypeOK, PerformHealthCheck, GetStats, CheckGetsStale, BreakerCools
<1>. QED BY <1>1, <1>2, <1>3, <1>4, <1>5 DEF WorkerInv, TypeOK, returns

-----------------------------------------------------------------------------
(* The steps that write to it, and the one that reports it.                *)

\* The task's own list runs ahead.
LEMMA CompletionStep ==
    ASSUME WorkerInv, ResearchCompletes
    PROVE  WorkerInv'
<1>1. task \in DOMAIN state.tasks /\ task \in TaskID
  BY DEF WorkerInv, TypeOK, ResearchCompletes, Busy
<1>2. IsGraphState(state)
  BY DEF WorkerInv, TypeOK
<1>3. /\ IsGraphState(state') /\ DOMAIN state'.tasks = TaskID
      /\ state'.results = state.results
      /\ state'.tasks[task].results = state.tasks[task].results + 1
      /\ \A u \in TaskID : u # task => state'.tasks[u] = state.tasks[u]
  BY <1>1, <1>2, TaskIsCompleted DEF ResearchCompletes, WorkerInv
<1>4. ToldAsStored'
  <2> SUFFICES ASSUME NEW t \in TaskID
               PROVE  /\ told[t] = ResultsFor(state', t) + blank[t]
                      /\ state'.tasks[t].results =
                             ResultsFor(state', t) + (IF task = t THEN 1 ELSE 0)
    BY <1>2, <1>3, ResultsForType
       DEF ToldAsStored, Pending, ResearchCompletes, returns, WorkerInv, TypeOK
  <2>1. ResultsFor(state', t) = ResultsFor(state, t) /\ ResultsFor(state, t) \in Nat
    BY <1>2, <1>3, SameResults, ResultsForType
  <2>2. told[t] \in Nat /\ blank[t] \in Nat
    BY DEF WorkerInv, TypeOK
  <2>3. told[t] = ResultsFor(state, t) + blank[t] /\ state.tasks[t].results = ResultsFor(state, t)
    BY <2>1, <2>2 DEF WorkerInv, ToldAsStored, Pending, ResearchCompletes
  <2>. QED BY <1>3, <2>1, <2>3
<1>. QED
  BY <1>3, <1>4 DEF WorkerInv, TypeOK, ResearchCompletes, Place, Busy, returns

\* The state's list catches up.
LEMMA AdditionStep ==
    ASSUME WorkerInv, AddResultToState
    PROVE  WorkerInv'
<1>1. task \in TaskID /\ task' = task
  BY DEF WorkerInv, TypeOK, AddResultToState, Busy
<1>2. IsGraphState(state) /\ state.results \in Seq(TaskID)
  BY StateFields DEF WorkerInv, TypeOK
<1>3. /\ IsGraphState(state') /\ state'.tasks = state.tasks
      /\ state'.results = Append(state.results, task)
  BY <1>1, <1>2, ResultIsAdded DEF AddResultToState
<1>4. Len(state.results) \in Nat /\ Len(state'.results) = Len(state.results) + 1
  BY <1>1, <1>2, <1>3, LenProperties, AppendProperties
<1>5. ToldAsStored'
  <2> SUFFICES ASSUME NEW t \in TaskID
               PROVE  /\ told[t] + (IF task = t THEN 1 ELSE 0) = ResultsFor(state', t) + blank[t]
                      /\ state'.tasks[t].results = ResultsFor(state', t)
    <3>1. \A t \in TaskID : /\ Pending("recording", t)' = (IF task = t THEN 1 ELSE 0)
                            /\ Pending("adding", t)' = 0 /\ ResultsFor(state', t) \in Nat
      BY <1>1, <1>3, ResultsForType DEF AddResultToState, Pending
    <3>. QED BY <1>3, <3>1 DEF ToldAsStored, AddResultToState, returns
  <2>1. ResultsFor(state', t) = ResultsFor(state, t) + (IF t = task THEN 1 ELSE 0)
    BY <1>1, <1>2, <1>3, OneMoreResult
  <2>2. told[t] \in Nat /\ blank[t] \in Nat /\ ResultsFor(state, t) \in Nat
    BY <1>2, ResultsForType DEF WorkerInv, TypeOK
  <2>3. /\ told[t] = ResultsFor(state, t) + blank[t]
        /\ state.tasks[t].results = ResultsFor(state, t) + (IF task = t THEN 1 ELSE 0)
    BY <2>2 DEF WorkerInv, ToldAsStored, Pending, AddResultToState
  <2>. QED BY <1>3, <2>1, <2>2, <2>3
<1>6. Len(state'.results) <= MaxResults
  BY <1>4, Bounds DEF WorkerInv, AddResultToState
<1>. QED
  BY <1>3, <1>5, <1>6 DEF WorkerInv, TypeOK, AddResultToState, Place, Busy, returns

LEMMA SuccessStep ==
    ASSUME WorkerInv, Succeed
    PROVE  WorkerInv'
<1>1. breaker' \in Breaker
  BY SuccessTyped DEF WorkerInv, TypeOK, Succeed
<1>2. /\ told \in [TaskID -> Nat] /\ blank \in [TaskID -> Nat] /\ task \in TaskID
      /\ IsGraphState(state)
  BY DEF WorkerInv, TypeOK, Succeed, Busy
<1>3. /\ UNCHANGED <<isHealthy, stale, checks, state, blank>> /\ heavy' \in BOOLEAN
      /\ wpc = "recording" /\ wpc' = "idle" /\ task' = NoTask
      /\ told' = [told EXCEPT ![task] = @ + 1]
  BY DEF Succeed, ReturnResult, Return
<1>4. told' \in [TaskID -> Nat]
  BY <1>2, <1>3
<1>5. ToldAsStored'
  <2> SUFFICES ASSUME NEW t \in TaskID
               PROVE  /\ told'[t] = ResultsFor(state, t) + blank[t]
                      /\ state.tasks[t].results = ResultsFor(state, t)
    <3>1. \A t \in TaskID : /\ Pending("recording", t)' = 0 /\ Pending("adding", t)' = 0
                            /\ told'[t] \in Nat /\ ResultsFor(state, t) \in Nat
      BY <1>2, <1>3, <1>4, ResultsForType DEF Pending
    <3>. QED BY <1>2, <1>3, <3>1 DEF ToldAsStored
  <2>1. told[t] \in Nat /\ blank[t] \in Nat /\ ResultsFor(state, t) \in Nat
    BY <1>2, ResultsForType
  <2>2. /\ told[t] + (IF task = t THEN 1 ELSE 0) = ResultsFor(state, t) + blank[t]
        /\ state.tasks[t].results = ResultsFor(state, t)
    BY <1>3, <2>1 DEF WorkerInv, ToldAsStored, Pending
  <2>3. told'[t] = told[t] + (IF task = t THEN 1 ELSE 0)
    BY <1>2, <1>3, <2>1
  <2>. QED BY <2>1, <2>2, <2>3
<1>. QED
  BY <1>1, <1>3, <1>5, <1>4, Bounds DEF WorkerInv, TypeOK, Place, Busy

-----------------------------------------------------------------------------
LEMMA WorkerStep == WorkerInv /\ [Next]_vars => WorkerInv'
<1> SUFFICES ASSUME WorkerInv, [Next]_vars PROVE WorkerInv'
  OBVIOUS
<1>1. CASE GetsTask
  BY <1>1, AdmissionStep DEF GetsTask
<1>2. CASE TaskStep
  BY <1>2, CheckHealthStep, ResearchFailsStep, ResearchPanicsStep, CompletionStep,
     AdditionStep, SuccessStep DEF TaskStep
<1>3. CASE PerformHealthCheck \/ GetStats \/ CheckGetsStale \/ BreakerCools
  BY <1>3, HealthStep
<1>4. CASE UNCHANGED vars
  <2>1. UNCHANGED <<wpc, task, breaker, isHealthy, stale, checks, heavy, state, returns>>
    BY <1>4 DEF vars
  <2>2. ToldAsStored'
    BY <2>1, WorkerStaysPut
  <2>. QED BY <2>1, <2>2 DEF WorkerInv, TypeOK, returns
<1>. QED BY <1>1, <1>2, <1>3, <1>4 DEF Next

\* The variables of a worker keep their types, the state stays a GraphState, and the
\* worker never stores more results than it may complete.
THEOREM WorkerTyped == Spec => []TypeOK
<1>1. WorkerInv => TypeOK
  BY DEF WorkerInv
<1>. QED BY <1>1, InvInit, WorkerStep, PTL DEF Spec

\* Of every task the pool is told, by a nil error, as many completions as the state
\* holds findings and the worker has recovered panics, but for the finding a worker has
\* added and not yet reported: a stored finding is never reported as an error, and a
\* completion without a finding is always a recovered panic.
THEOREM AlwaysToldAsStored == Spec => []ToldAsStored
<1>1. WorkerInv => ToldAsStored
  BY DEF WorkerInv
<1>. QED BY <1>1, InvInit, WorkerStep, PTL DEF Spec
=============================================================================
