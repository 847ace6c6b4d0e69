------------------------ MODULE ResearchGraphProofs ------------------------
(***************************************************************************)
(* Proofs about ResearchGraph for every set of tasks and workers and every *)
(* limit of iterations, with and without a worker pool.                    *)
(***************************************************************************)
EXTENDS ResearchGraph, GraphStateProofs, WellFoundedInduction

Early   == {"start", "clarify", "planning"}
Working == {"supervisor", "distribute", "submit", "researcher", "research", "compression",
            "report", "end"}
Over    == {"closing", "waiting", "stopped", "done"}

\* A worker has a task in exactly the places that use one.
HeldTyped == \A w \in Worker : wpc[w] \in {"executing", "adding"} <=> wtask[w] # NoTask

\* Nothing is planned, queued, held or found yet.
Idle ==
    /\ DOMAIN state.tasks = {} /\ state.results = <<>>
    /\ \A t \in TaskID : queued[t] = 0 /\ backoff[t] = 0 /\ sending[t] = 0
    /\ \A w \in Worker : wtask[w] = NoTask

\* What is so at which node.
Places ==
    /\ gpc = "research" => task \in TaskID /\ state.tasks[task].status = "in_progress"
    /\ gpc \in {"distribute", "submit"} => pooled /\ state.iterations < MaxIterations
    /\ gpc \in {"researcher", "research"} => ~pooled
    /\ gpc \in {"closing", "waiting", "stopped"} => pooled
    /\ gpc \in Working => DOMAIN state.tasks = TaskID
    /\ gpc \in Early => Idle

TasksPlanned == DOMAIN state.tasks = TaskID \/ Idle

\* Without a pool there are no workers; after a Stop that has waited they are gone.
Alone == ~pooled => \A w \in Worker : wpc[w] = "unborn"
Quiet ==
    gpc \in {"stopped", "done"} /\ ~timedOut => \A w \in Worker : wpc[w] \in {"unborn", "exited"}

Shape == TypeOK /\ HeldTyped /\ Places /\ TasksPlanned /\ Alone /\ Quiet

-----------------------------------------------------------------------------
(* Types and places.                                                       *)

LEMMA ShapeInit == Init => Shape
<1> SUFFICES ASSUME Init PROVE Shape
  OBVIOUS
<1>1. /\ IsGraphState(state) /\ state.iterations = 0 /\ state.results = <<>>
      /\ DOMAIN state.tasks = {}
  BY StartState DEF Init
<1>2. TypeOK
  <2>1. report \in Seq(TaskID \cup {Torn}) /\ outcome \in {"none", "report", "error"}
    BY EmptySeq DEF Init
  <2>2. state.iterations <= MaxIterations
    BY <1>1, GraphStateAssumption
  <2>3. wpc \in [Worker -> {"unborn", "select", "executing", "adding", "offering", "exited"}]
    BY DEF Init
  <2>4. wtask \in [Worker -> TaskID \cup {NoTask}]
    BY DEF Init
  <2>5. /\ queued \in [TaskID -> Nat] /\ backoff \in [TaskID -> Nat]
        /\ sending \in [TaskID -> Nat]
    BY DEF Init
  <2>. QED BY <1>1, <2>1, <2>2, <2>3, <2>4, <2>5 DEF Init, TypeOK, Node
<1>3. Idle
  BY <1>1 DEF Init, Idle
<1>. QED
  BY <1>2, <1>3 DEF Init, Shape, HeldTyped, Places, TasksPlanned, Alone, Quiet, Early, Working

\* The state PlanningNode leaves behind.
LEMMA PlannedState ==
    ASSUME IsGraphState(state)
    PROVE  /\ IsGraphState(Planned)
           /\ Planned.tasks = [t \in TaskID |-> NewTask]
           /\ Planned.results = state.results /\ Planned.iterations = state.iterations
<1> DEFINE s == SetPhase(state, "research")
           tasks == [t \in TaskID |-> NewTask]
<1>1. IsGraphState(s) /\ s.results = state.results /\ s.iterations = state.iterations
  BY PhaseIsSet DEF Phase
<1>2. tasks \in [TaskID -> ResearchTask]
  BY DEF NewTask, ResearchTask, TaskStatus
<1>3. Planned = [s EXCEPT !.tasks = tasks]
  BY DEF Planned
<1> HIDE DEF s, tasks
<1>4. Planned \in GraphStates(TaskID)
  BY <1>1, <1>2, <1>3, StateFields DEF GraphStates
<1>5. /\ Planned.tasks = tasks /\ Planned.results = s.results
      /\ Planned.iterations = s.iterations
  BY <1>1, <1>3, StateFields DEF GraphStates
<1>. QED BY <1>1, <1>4, <1>5 DEF IsGraphState, tasks

\* A step of Execute that passes from one node to another and touches only the phase.
LEMMA PassKeepsShape ==
    ASSUME Shape, NEW from \in Working, NEW to \in Working \cup {"extract"}, NEW phase \in Phase,
           to \notin {"research", "researcher", "distribute", "submit"},
           Pass(from, to, phase)
    PROVE  Shape'
<1>1. IsGraphState(state')
      /\ state'.tasks = state.tasks /\ state'.results = state.results
      /\ state'.iterations = state.iterations
  BY PhaseIsSet DEF Pass, Shape, TypeOK
<1> USE DEF graphVars, copyVars, poolVars
<1>2. TypeOK'
  BY <1>1 DEF Pass, Go, Shape, TypeOK, Node, Working
<1>3. HeldTyped' /\ Alone' /\ Quiet'
  BY DEF Pass, Go, Shape, HeldTyped, Alone, Quiet, Working
<1>4. Places' /\ TasksPlanned'
  BY <1>1 DEF Pass, Go, Shape, Places, TasksPlanned, Idle, Working, Early
<1>. QED BY <1>2, <1>3, <1>4 DEF Shape

LEMMA FailKeepsShape ==
    ASSUME Shape, NEW from, Fail(from),
           IsGraphState(state'),
           DOMAIN state'.tasks = DOMAIN state.tasks, state'.results = state.results,
           state'.iterations = state.iterations
    PROVE  Shape'
<1> USE DEF graphVars, copyVars, poolVars
<1>2. TypeOK'
  BY DEF Fail, Go, Leave, Shape, TypeOK, Node
<1>3. HeldTyped' /\ Alone' /\ Quiet'
  BY DEF Fail, Go, Leave, Shape, HeldTyped, Alone, Quiet
<1>4. Places' /\ TasksPlanned'
  BY DEF Fail, Go, Leave, Shape, Places, TasksPlanned, Idle, Working, Early
<1>. QED BY <1>2, <1>3, <1>4 DEF Shape

LEMMA GraphKeepsShape == ASSUME Shape, GraphStep PROVE Shape'
<1> USE DEF graphVars, copyVars, poolVars
<1>0. /\ IsGraphState(state) /\ state.iterations <= MaxIterations
      /\ DOMAIN state.tasks \subseteq TaskID /\ state.iterations \in Nat /\ MaxIterations \in Nat
  BY StateFields, GraphStateAssumption DEF Shape, TypeOK
<1>1. CASE StartNode
  <2>1. IsGraphState(state')
        /\ state'.tasks = state.tasks /\ state'.results = state.results
        /\ state'.iterations = state.iterations
    BY <1>0, <1>1, PhaseIsSet DEF StartNode, Phase
  <2>2. TypeOK'
    BY <1>1, <2>1 DEF StartNode, Go, Shape, TypeOK, Node
  <2>3. HeldTyped' /\ Alone' /\ Quiet'
    BY <1>1 DEF StartNode, Go, Shape, HeldTyped, Alone, Quiet, Places, Idle, Early
  <2>4. Places' /\ TasksPlanned'
    BY <1>1, <2>1 DEF StartNode, Go, Shape, Places, TasksPlanned, Idle, Working, Early
  <2>. QED BY <2>2, <2>3, <2>4 DEF Shape
<1>2. CASE ClarifyNode
  <2>1. CASE Fail("clarify") /\ UNCHANGED state
    BY <1>0, <2>1, FailKeepsShape
  <2>2. CASE ~(Fail("clarify") /\ UNCHANGED state)
    <3>1. /\ gpc = "clarify" /\ gpc' \in {"extract", "planning"}
          /\ UNCHANGED <<pooled, short, batch, task, outcome, report, poolVars>>
          /\ \E phase \in Phase : state' = SetPhase(state, phase)
      BY <1>2, <2>2 DEF ClarifyNode, Go, Phase
    <3>2. IsGraphState(state')
          /\ state'.tasks = state.tasks /\ state'.results = state.results
          /\ state'.iterations = state.iterations
      BY <1>0, <3>1, PhaseIsSet
    <3>3. TypeOK'
      BY <3>1, <3>2 DEF Shape, TypeOK, Node
    <3>4. HeldTyped' /\ Alone' /\ Quiet'
      BY <3>1 DEF Shape, HeldTyped, Alone, Quiet
    <3>5. Places' /\ TasksPlanned'
      BY <3>1, <3>2 DEF Shape, Places, TasksPlanned, Idle, Working, Early
    <3>. QED BY <3>3, <3>4, <3>5 DEF Shape
  <2>. QED BY <2>1, <2>2
<1>3. CASE PlanningNode
  <2>1. CASE Fail("planning") /\ UNCHANGED state
    BY <1>0, <2>1, FailKeepsShape
  <2>2. CASE ~(Fail("planning") /\ UNCHANGED state)
    <3>1. /\ gpc = "planning" /\ gpc' = "supervisor" /\ state' = Planned
          /\ UNCHANGED <<pooled, short, batch, task, outcome, report, poolVars>>
      BY <1>3, <2>2 DEF PlanningNode, Go
    <3>2. /\ IsGraphState(state') /\ DOMAIN state'.tasks = TaskID
          /\ state'.iterations = state.iterations
      BY <1>0, <3>1, PlannedState
    <3>3. TypeOK'
      BY <3>1, <3>2 DEF Shape, TypeOK, Node
    <3>4. HeldTyped' /\ Alone' /\ Quiet'
      BY <3>1 DEF Shape, HeldTyped, Alone, Quiet
    <3>5. Places' /\ TasksPlanned'
      BY <3>1, <3>2 DEF Shape, Places, TasksPlanned, Working, Early
    <3>. QED BY <3>3, <3>4, <3>5 DEF Shape
  <2>. QED BY <2>1, <2>2
<1>4. CASE SupervisorNode
  <2>1. /\ gpc = "supervisor"
        /\ UNCHANGED <<pooled, short, batch, task, outcome, report, poolVars>>
    BY <1>4 DEF SupervisorNode, Go
  <2>2. \/ /\ gpc' = "compression" /\ UNCHANGED state
        \/ /\ gpc' = "compression" /\ state' = SetPhase(state, "compression")
        \/ /\ gpc' = "distribute" /\ pooled /\ ~IterationsOver /\ UNCHANGED state
        \/ /\ gpc' = "researcher" /\ ~pooled /\ ~IterationsOver
           /\ state' = IncrementIteration(SetPhase(state, "research"))
    BY <1>4 DEF SupervisorNode, Go
  <2>3. /\ IsGraphState(state') /\ state'.tasks = state.tasks /\ state'.results = state.results
        /\ state'.iterations <= MaxIterations
        /\ gpc' = "distribute" => state'.iterations < MaxIterations
    <3>1. CASE UNCHANGED state
      BY <1>0, <2>2, <3>1 DEF IterationsOver
    <3>2. CASE gpc' = "compression" /\ state' = SetPhase(state, "compression")
      BY <1>0, <3>2, PhaseIsSet DEF Phase
    <3>3. CASE gpc' = "researcher" /\ ~IterationsOver
               /\ state' = IncrementIteration(SetPhase(state, "research"))
      <4> DEFINE s == SetPhase(state, "research")
      <4>1. IsGraphState(s) /\ s.tasks = state.tasks /\ s.results = state.results
            /\ s.iterations = state.iterations
        BY <1>0, PhaseIsSet DEF Phase
      <4>2. state' = IncrementIteration(s)
        BY <3>3
      <4> HIDE DEF s
      <4>3. IsGraphState(state') /\ state'.tasks = s.tasks /\ state'.results = s.results
            /\ state'.iterations = s.iterations + 1
        BY <4>1, <4>2, IterationIsCounted
      <4>. QED BY <1>0, <3>3, <4>1, <4>3 DEF IterationsOver
    <3>. QED BY <2>2, <3>1, <3>2, <3>3
  <2>4. TypeOK'
    BY <2>1, <2>2, <2>3 DEF Shape, TypeOK, Node
  <2>5. HeldTyped' /\ Alone' /\ Quiet'
    BY <2>1, <2>2 DEF Shape, HeldTyped, Alone, Quiet
  <2>6. Places' /\ TasksPlanned'
    BY <2>1, <2>2, <2>3 DEF Shape, Places, TasksPlanned, Idle, Working, Early
  <2>. QED BY <2>4, <2>5, <2>6 DEF Shape
<1>5. CASE DistributeNode
  <2>1. GetPendingTasks(state) \subseteq TaskID
    BY <1>0 DEF GetPendingTasks, Known
  <2>2. TypeOK'
    BY <1>5, <2>1 DEF DistributeNode, Go, Shape, TypeOK, Node
  <2>3. HeldTyped' /\ Alone' /\ Quiet'
    BY <1>5 DEF DistributeNode, Go, Shape, HeldTyped, Alone, Quiet
  <2>4. Places' /\ TasksPlanned'
    BY <1>5 DEF DistributeNode, Go, Shape, Places, TasksPlanned, Idle, Working, Early
  <2>. QED BY <2>2, <2>3, <2>4 DEF Shape
<1>6. CASE SubmitNode
  <2>1. /\ gpc = "submit" /\ gpc' = "supervisor" /\ batch' = {}
        /\ state' = IncrementIteration(state)
        /\ UNCHANGED <<pooled, short, task, outcome, report, backoff, sending, wpc, wtask, closed,
                       timedOut, crashed>>
    BY <1>6 DEF SubmitNode, Go
  <2>2. queued' \in [TaskID -> Nat]
    BY <1>6 DEF SubmitNode, Shape, TypeOK
  <2>3. /\ IsGraphState(state') /\ state'.tasks = state.tasks /\ state'.results = state.results
        /\ state'.iterations = state.iterations + 1
    BY <1>0, <2>1, IterationIsCounted
  <2>4. state'.iterations <= MaxIterations
    BY <1>0, <2>1, <2>3 DEF Shape, Places
  <2>5. TypeOK'
    BY <2>1, <2>2, <2>3, <2>4 DEF Shape, TypeOK, Node
  <2>6. HeldTyped' /\ Alone' /\ Quiet'
    BY <2>1 DEF Shape, HeldTyped, Alone, Quiet
  <2>7. Places' /\ TasksPlanned'
    BY <2>1, <2>3 DEF Shape, Places, TasksPlanned, Working, Early
  <2>. QED BY <2>5, <2>6, <2>7 DEF Shape
<1>7. CASE ResearcherNode
  <2>1. /\ gpc = "researcher"
        /\ UNCHANGED <<pooled, short, batch, outcome, report, poolVars>>
    BY <1>7 DEF ResearcherNode, Go
  <2>2. \/ gpc' = "supervisor" /\ UNCHANGED <<state, task>>
        \/ \E t \in NextPendingTasks(state) :
              gpc' = "research" /\ task' = t /\ state' = UpdateTask(state, t, "in_progress")
    BY <1>7 DEF ResearcherNode, Go
  <2>3. CASE gpc' = "supervisor" /\ UNCHANGED <<state, task>>
    <3>1. TypeOK'
      BY <2>1, <2>3 DEF Shape, TypeOK, Node
    <3>2. HeldTyped' /\ Alone' /\ Quiet'
      BY <2>1, <2>3 DEF Shape, HeldTyped, Alone, Quiet
    <3>3. Places' /\ TasksPlanned'
      BY <2>1, <2>3 DEF Shape, Places, TasksPlanned, Idle, Working, Early
    <3>. QED BY <3>1, <3>2, <3>3 DEF Shape
  <2>4. ASSUME NEW t \in NextPendingTasks(state),
               gpc' = "research", task' = t, state' = UpdateTask(state, t, "in_progress")
        PROVE  Shape'
    <3>1. t \in DOMAIN state.tasks /\ t \in TaskID
      BY <1>0 DEF NextPendingTasks, GetPendingTasks, Known
    <3>2. /\ IsGraphState(state') /\ DOMAIN state'.tasks = DOMAIN state.tasks
          /\ state'.tasks[t].status = "in_progress"
          /\ state'.results = state.results /\ state'.iterations = state.iterations
      BY <1>0, <2>4, <3>1, TaskIsUpdated DEF TaskStatus
    <3>3. TypeOK'
      BY <2>1, <2>4, <3>1, <3>2 DEF Shape, TypeOK, Node
    <3>4. HeldTyped' /\ Alone' /\ Quiet'
      BY <2>1, <2>4 DEF Shape, HeldTyped, Alone, Quiet
    <3>5. Places' /\ TasksPlanned'
      BY <2>1, <2>4, <3>1, <3>2 DEF Shape, Places, TasksPlanned, Idle, Working, Early
    <3>. QED BY <3>3, <3>4, <3>5 DEF Shape
  <2>. QED BY <2>2, <2>3, <2>4
<1>8. CASE ExecuteResearch
  <2>1. task \in DOMAIN state.tasks /\ task \in TaskID
    BY <1>8 DEF ExecuteResearch, Fail, Go, Shape, Places, Working
  <2>2. CASE Fail("research") /\ state' = UpdateTask(state, task, "failed")
    <3>1. /\ IsGraphState(state') /\ DOMAIN state'.tasks = DOMAIN state.tasks
          /\ state'.results = state.results /\ state'.iterations = state.iterations
      BY <1>0, <2>1, <2>2, TaskIsUpdated DEF TaskStatus
    <3>. QED BY <2>2, <3>1, FailKeepsShape
  <2>3. CASE ~(Fail("research") /\ state' = UpdateTask(state, task, "failed"))
    <3> DEFINE s == CompleteTask(state, task)
    <3>1. /\ gpc = "research" /\ gpc' = "supervisor" /\ task' = NoTask
          /\ state' = AddResult(s, task)
          /\ UNCHANGED <<pooled, short, batch, outcome, report, poolVars>>
      BY <1>8, <2>3 DEF ExecuteResearch, Go
    <3>2. /\ IsGraphState(s) /\ DOMAIN s.tasks = DOMAIN state.tasks
          /\ s.iterations = state.iterations
      BY <1>0, <2>1, TaskIsCompleted
    <3> HIDE DEF s
    <3>3. /\ IsGraphState(state') /\ DOMAIN state'.tasks = DOMAIN state.tasks
          /\ state'.iterations = state.iterations
      BY <2>1, <3>1, <3>2, ResultIsAdded
    <3>4. TypeOK'
      BY <3>1, <3>3 DEF Shape, TypeOK, Node
    <3>5. HeldTyped' /\ Alone' /\ Quiet'
      BY <3>1 DEF Shape, HeldTyped, Alone, Quiet
    <3>6. Places' /\ TasksPlanned'
      BY <3>1, <3>3 DEF Shape, Places, TasksPlanned, Working, Early
    <3>. QED BY <3>4, <3>5, <3>6 DEF Shape
  <2>. QED BY <2>2, <2>3
<1>9. CASE CompressionNode \/ ReportGenerationNode \/ EndNode
  BY <1>9, PassKeepsShape
     DEF CompressionNode, ReportGenerationNode, EndNode, Working, Phase
<1>10. CASE ExtractReport
  <2>1. report' \in Seq(TaskID \cup {Torn})
    <3>1. state.results \in Seq(TaskID \cup {Torn})
      BY <1>0, StateFields, SeqDef
    <3>2. Append(state.results, Torn) \in Seq(TaskID \cup {Torn})
      BY <3>1, AppendProperties
    <3>. QED BY <1>10, <3>1, <3>2 DEF ExtractReport
  <2>2. TypeOK'
    BY <1>10, <2>1 DEF ExtractReport, Go, Leave, Shape, TypeOK, Node
  <2>3. HeldTyped' /\ Alone' /\ Quiet'
    BY <1>10 DEF ExtractReport, Go, Leave, Shape, HeldTyped, Alone, Quiet
  <2>4. Places' /\ TasksPlanned'
    BY <1>10 DEF ExtractReport, Go, Leave, Shape, Places, TasksPlanned, Idle, Working, Early
  <2>. QED BY <2>2, <2>3, <2>4 DEF Shape
<1>11. CASE StopCloses \/ StopWaits \/ StopReturns
  <2>1. TypeOK'
    BY <1>11 DEF StopCloses, StopWaits, StopReturns, Go, Shape, TypeOK, Node
  <2>2. HeldTyped' /\ Alone' /\ Quiet'
    BY <1>11 DEF StopCloses, StopWaits, StopReturns, Go, Shape, HeldTyped, Alone, Quiet, TypeOK
  <2>3. Places' /\ TasksPlanned'
    BY <1>11 DEF StopCloses, StopWaits, StopReturns, Go, Shape, Places, TasksPlanned, Idle,
                 Working, Early
  <2>. QED BY <2>1, <2>2, <2>3 DEF Shape
<1>. QED
  BY <1>1, <1>2, <1>3, <1>4, <1>5, <1>6, <1>7, <1>8, <1>9, <1>10, <1>11 DEF GraphStep

LEMMA CrashKeepsShape == ASSUME Shape, Crash PROVE Shape'
<1> USE DEF Crash, graphVars, copyVars
<1>1. TypeOK' /\ HeldTyped' /\ Alone' /\ Quiet'
  BY DEF Shape, TypeOK, HeldTyped, Alone, Quiet
<1>2. Places' /\ TasksPlanned'
  BY DEF Shape, Places, TasksPlanned, Idle
<1>. QED BY <1>1, <1>2 DEF Shape

LEMMA WorkerKeepsShape == ASSUME Shape, NEW w \in Worker, WorkerStep(w) PROVE Shape'
<1> USE DEF graphVars, copyVars, poolVars
<1>0. /\ IsGraphState(state) /\ ~(ResultsClosed /\ ~timedOut) /\ pooled
      /\ wpc[w] \in {"executing", "adding"} <=> wtask[w] # NoTask
      /\ wtask[w] \in TaskID \cup {NoTask}
      /\ wpc \in [Worker -> {"unborn", "select", "executing", "adding", "offering", "exited"}]
  BY DEF WorkerStep, Receive, WorkerFails, WorkerRecovers, WorkerCompletes, WorkerAddsResult,
         WorkerOffers, WorkerPanics, WorkerLeaves, Move, ResultsClosed, Shape, TypeOK, HeldTyped,
         Alone, Quiet
<1>1. /\ UNCHANGED <<graphVars, sending, closed, timedOut>>
      /\ crashed' \in BOOLEAN
  BY DEF WorkerStep, Receive, WorkerFails, WorkerRecovers, WorkerCompletes, WorkerAddsResult,
         WorkerOffers, WorkerPanics, WorkerLeaves, Crash, Shape, TypeOK
<1>2. wtask[w] # NoTask => ~Idle /\ wtask[w] \in DOMAIN state.tasks /\ wtask[w] \in TaskID
  BY <1>0 DEF Shape, TasksPlanned, Idle
<1>3. CASE Receive(w)
  <2>1. PICK t \in TaskID : /\ queued[t] > 0
                            /\ wtask' = [wtask EXCEPT ![w] = t]
                            /\ queued' = [queued EXCEPT ![t] = @ - 1]
    BY <1>3 DEF Receive
  <2>2. wpc' = [wpc EXCEPT ![w] = "executing"] /\ UNCHANGED <<state, backoff>>
    BY <1>3 DEF Receive, Move
  <2>3. queued[t] - 1 \in Nat /\ ~Idle
    BY <2>1 DEF Shape, TypeOK, Idle
  <2>4. TypeOK'
    BY <1>1, <2>1, <2>2, <2>3 DEF Shape, TypeOK
  <2>5. HeldTyped' /\ Alone' /\ Quiet'
    BY <1>0, <1>1, <2>1, <2>2, ResearchGraphAssumption
       DEF Shape, TypeOK, HeldTyped, Alone, Quiet, ResultsClosed
  <2>6. Places' /\ TasksPlanned'
    BY <1>1, <2>2, <2>3 DEF Shape, Places, TasksPlanned, Working, Early
  <2>. QED BY <2>4, <2>5, <2>6 DEF Shape
<1>4. CASE WorkerFails(w)
  <2>1. /\ wpc[w] = "executing" /\ wpc' = [wpc EXCEPT ![w] = "select"]
        /\ wtask' = [wtask EXCEPT ![w] = NoTask] /\ UNCHANGED <<state, queued>>
    BY <1>4 DEF WorkerFails, Move
  <2>2. wtask[w] \in TaskID /\ ~Idle
    BY <1>0, <1>2, <2>1
  <2>3. backoff' \in [TaskID -> Nat]
    BY <1>4, <2>2 DEF WorkerFails, Shape, TypeOK
  <2>4. TypeOK'
    BY <1>1, <2>1, <2>3 DEF Shape, TypeOK
  <2>5. HeldTyped' /\ Alone' /\ Quiet'
    BY <1>0, <1>1, <2>1 DEF Shape, TypeOK, HeldTyped, Alone, Quiet, ResultsClosed
  <2>6. Places' /\ TasksPlanned'
    BY <1>1, <2>1, <2>2 DEF Shape, Places, TasksPlanned, Working, Early
  <2>. QED BY <2>4, <2>5, <2>6 DEF Shape
<1>5. CASE WorkerCompletes(w)
  <2>1. /\ wpc[w] = "executing" /\ wpc' = [wpc EXCEPT ![w] = "adding"]
        /\ state' = CompleteTask(state, wtask[w]) /\ UNCHANGED <<queued, backoff, wtask>>
    BY <1>5 DEF WorkerCompletes, Move
  <2>2. wtask[w] \in DOMAIN state.tasks /\ ~Idle
    BY <1>0, <1>2, <2>1
  <2>3. /\ IsGraphState(state') /\ DOMAIN state'.tasks = DOMAIN state.tasks
        /\ state'.iterations = state.iterations
    BY <1>0, <2>1, <2>2, TaskIsCompleted
  <2>4. TypeOK'
    BY <1>1, <2>1, <2>3 DEF Shape, TypeOK
  <2>5. HeldTyped' /\ Alone' /\ Quiet'
    BY <1>0, <1>1, <2>1 DEF Shape, HeldTyped, Alone, Quiet, ResultsClosed
  <2>6. gpc # "research"
    BY <1>0 DEF Shape, Places
  <2>7. Places' /\ TasksPlanned'
    BY <1>1, <2>2, <2>3, <2>6 DEF Shape, Places, TasksPlanned, Working, Early
  <2>. QED BY <2>4, <2>5, <2>7 DEF Shape
<1>6. CASE WorkerAddsResult(w)
  <2>1. /\ wpc[w] = "adding" /\ wpc' = [wpc EXCEPT ![w] = "offering"]
        /\ wtask' = [wtask EXCEPT ![w] = NoTask]
        /\ state' = AddResult(state, wtask[w]) /\ UNCHANGED <<queued, backoff>>
    BY <1>6 DEF WorkerAddsResult, Move
  <2>2. wtask[w] \in TaskID /\ ~Idle
    BY <1>0, <1>2, <2>1
  <2>3. /\ IsGraphState(state') /\ state'.tasks = state.tasks
        /\ state'.iterations = state.iterations
    BY <1>0, <2>1, <2>2, ResultIsAdded
  <2>4. TypeOK'
    BY <1>1, <2>1, <2>3 DEF Shape, TypeOK
  <2>5. HeldTyped' /\ Alone' /\ Quiet'
    BY <1>0, <1>1, <2>1 DEF Shape, TypeOK, HeldTyped, Alone, Quiet, ResultsClosed
  <2>6. Places' /\ TasksPlanned'
    BY <1>1, <2>2, <2>3 DEF Shape, Places, TasksPlanned, Working, Early
  <2>. QED BY <2>4, <2>5, <2>6 DEF Shape
<1>7. CASE WorkerLeaves(w) \/ WorkerOffers(w)
  <2>1. /\ wpc[w] \in {"select", "offering"}
        /\ \E to \in {"select", "exited"} : wpc' = [wpc EXCEPT ![w] = to]
        /\ UNCHANGED <<state, queued, backoff, wtask>>
    BY <1>7 DEF WorkerLeaves, WorkerOffers, Move
  <2>2. TypeOK'
    BY <1>1, <2>1 DEF Shape, TypeOK
  <2>3. HeldTyped' /\ Alone' /\ Quiet'
    BY <1>0, <1>1, <2>1 DEF Shape, HeldTyped, Alone, Quiet, ResultsClosed
  <2>4. Places' /\ TasksPlanned'
    BY <1>1, <2>1 DEF Shape, Places, TasksPlanned, Idle, Working, Early
  <2>. QED BY <2>2, <2>3, <2>4 DEF Shape
<1>8. CASE WorkerRecovers(w)
  <2>1. /\ wpc[w] = "executing" /\ wpc' = [wpc EXCEPT ![w] = "offering"]
        /\ wtask' = [wtask EXCEPT ![w] = NoTask] /\ UNCHANGED <<state, queued, backoff>>
    BY <1>8 DEF WorkerRecovers, Move
  <2>2. ~Idle
    BY <1>0, <1>2, <2>1
  <2>3. TypeOK'
    BY <1>1, <2>1 DEF Shape, TypeOK
  <2>4. HeldTyped' /\ Alone' /\ Quiet'
    BY <1>0, <1>1, <2>1 DEF Shape, TypeOK, HeldTyped, Alone, Quiet, ResultsClosed
  <2>5. Places' /\ TasksPlanned'
    BY <1>1, <2>1, <2>2 DEF Shape, Places, TasksPlanned, Working, Early
  <2>. QED BY <2>3, <2>4, <2>5 DEF Shape
<1>9. CASE WorkerPanics(w)
  BY <1>9, CrashKeepsShape DEF WorkerPanics
<1>. QED
  BY <1>3, <1>4, <1>5, <1>6, <1>7, <1>8, <1>9 DEF WorkerStep

LEMMA RetryKeepsShape == ASSUME Shape, NEW t \in TaskID, RetryStep(t) PROVE Shape'
<1> USE DEF graphVars, copyVars, poolVars
<1>1. CASE RetryPanics(t)
  BY <1>1, CrashKeepsShape DEF RetryPanics
<1>2. CASE ~RetryPanics(t)
  <2>1. ~Idle /\ UNCHANGED <<graphVars, state, wpc, wtask, closed, timedOut, crashed>>
    BY <1>2 DEF RetryStep, RetryWakes, RetrySends, RetryGivesUp, Shape, TypeOK, Idle
  <2>2. /\ queued' \in [TaskID -> Nat] /\ backoff' \in [TaskID -> Nat]
        /\ sending' \in [TaskID -> Nat]
    <3>1. /\ queued \in [TaskID -> Nat] /\ backoff \in [TaskID -> Nat]
          /\ sending \in [TaskID -> Nat]
      BY DEF Shape, TypeOK
    <3>2. CASE RetryWakes(t)
      BY <3>1, <3>2 DEF RetryWakes
    <3>3. CASE RetrySends(t)
      BY <3>1, <3>3 DEF RetrySends
    <3>4. CASE RetryGivesUp(t)
      BY <3>1, <3>4 DEF RetryGivesUp
    <3>. QED BY <1>2, <3>2, <3>3, <3>4 DEF RetryStep
  <2>3. TypeOK'
    BY <2>1, <2>2 DEF Shape, TypeOK
  <2>4. HeldTyped' /\ Alone' /\ Quiet'
    BY <2>1 DEF Shape, HeldTyped, Alone, Quiet
  <2>5. Places' /\ TasksPlanned'
    BY <2>1 DEF Shape, Places, TasksPlanned, Working, Early
  <2>. QED BY <2>3, <2>4, <2>5 DEF Shape
<1>. QED BY <1>1, <1>2

LEMMA StepKeepsShape == ASSUME Shape, [Next]_vars PROVE Shape'
<1>1. CASE GraphStep
  BY <1>1, GraphKeepsShape
<1>2. ASSUME NEW w \in Worker, WorkerStep(w) PROVE Shape'
  BY <1>2, WorkerKeepsShape
<1>3. ASSUME NEW t \in TaskID, RetryStep(t) PROVE Shape'
  BY <1>3, RetryKeepsShape
<1>4. CASE UNCHANGED vars
  <2> USE <1>4 DEF vars, graphVars, copyVars, poolVars
  <2>1. TypeOK' /\ HeldTyped' /\ Alone' /\ Quiet'
    BY DEF Shape, TypeOK, HeldTyped, Alone, Quiet
  <2>2. Places' /\ TasksPlanned'
    BY DEF Shape, Places, TasksPlanned, Idle
  <2>. QED BY <2>1, <2>2 DEF Shape
<1>. QED BY <1>1, <1>2, <1>3, <1>4 DEF Next

LEMMA ShapeHolds == Spec => []Shape
<1>1. Init => Shape
  BY ShapeInit
<1>2. Shape /\ [Next]_vars => Shape'
  BY StepKeepsShape
<1>. QED BY <1>1, <1>2, PTL DEF Spec

\* Every field has its type in every reachable state: in particular the counter of
\* iterations never passes the limit in either mode (supervisorNode, IncrementIteration).
THEOREM GraphTyped == Spec => []TypeOK
<1>1. Shape => TypeOK
  BY DEF Shape
<1>. QED BY <1>1, ShapeHolds, PTL

\* Execute's caller finds the state at rest unless the deferred Stop gave up waiting:
\* a worker that could still write has not left the pool.
THEOREM ReturnIsQuiet == Spec => QuietAfterReturn
<1>1. Shape /\ [Next]_vars => [gpc = "done" /\ ~timedOut => UNCHANGED state]_vars
  <2> SUFFICES ASSUME Shape, Next, gpc = "done", ~timedOut PROVE UNCHANGED state
    BY DEF vars
  <2>1. \A w \in Worker : wpc[w] \in {"unborn", "exited"}
    BY DEF Shape, Quiet
  <2>2. ~GraphStep
    BY DEF GraphStep, StartNode, ClarifyNode, PlanningNode, SupervisorNode, DistributeNode,
           SubmitNode, ResearcherNode, ExecuteResearch, CompressionNode, ReportGenerationNode,
           EndNode, ExtractReport, StopCloses, StopWaits, StopReturns, Pass, Fail, Go
  <2>3. ASSUME NEW w \in Worker, WorkerStep(w) PROVE FALSE
    BY <2>1, <2>3
       DEF WorkerStep, Receive, WorkerFails, WorkerRecovers, WorkerCompletes, WorkerAddsResult,
           WorkerOffers, WorkerPanics, WorkerLeaves, Move
  <2>4. ASSUME NEW t \in TaskID, RetryStep(t) PROVE UNCHANGED state
    BY <2>4 DEF RetryStep, RetryWakes, RetrySends, RetryGivesUp, RetryPanics, Crash
  <2>. QED BY <2>2, <2>3, <2>4 DEF Next
<1>. QED BY <1>1, ShapeHolds, PTL DEF Spec, QuietAfterReturn

-----------------------------------------------------------------------------
(* The two records of a finding.                                           *)

\* The steps of Execute that neither plan, nor touch a task or a result.
PlainStep ==
    \/ StartNode \/ ClarifyNode \/ SupervisorNode \/ DistributeNode \/ SubmitNode
    \/ CompressionNode \/ ReportGenerationNode \/ EndNode \/ ExtractReport
    \/ StopCloses \/ StopWaits \/ StopReturns

LEMMA PlainKeepsResults ==
    ASSUME Shape, PlainStep
    PROVE  /\ state'.tasks = state.tasks /\ state'.results = state.results
           /\ UNCHANGED <<wtask, backoff, sending>>
           /\ (~SubmitNode) => queued' = queued
<1> USE DEF graphVars, copyVars, poolVars
<1>1. UNCHANGED <<wtask, backoff, sending>> /\ (~SubmitNode => queued' = queued)
  BY DEF PlainStep, StartNode, ClarifyNode, SupervisorNode, DistributeNode, SubmitNode,
         CompressionNode, ReportGenerationNode, EndNode, ExtractReport, StopCloses, StopWaits,
         StopReturns, Pass, Fail
<1>2. \/ UNCHANGED state \/ \E phase \in Phase : state' = SetPhase(state, phase)
      \/ state' = IncrementIteration(state)
      \/ state' = IncrementIteration(SetPhase(state, "research"))
  BY DEF PlainStep, StartNode, ClarifyNode, SupervisorNode, DistributeNode, SubmitNode,
         CompressionNode, ReportGenerationNode, EndNode, ExtractReport, StopCloses, StopWaits,
         StopReturns, Pass, Fail, Phase
<1>3. IsGraphState(state) /\ "research" \in Phase
  BY DEF Shape, TypeOK, Phase
<1>4. CASE \E phase \in Phase : state' = SetPhase(state, phase)
  BY <1>1, <1>3, <1>4, PhaseIsSet
<1>5. CASE state' = IncrementIteration(state)
  BY <1>1, <1>3, <1>5, IterationIsCounted
<1>6. CASE state' = IncrementIteration(SetPhase(state, "research"))
  <2> DEFINE s == SetPhase(state, "research")
  <2>1. IsGraphState(s) /\ s.tasks = state.tasks /\ s.results = state.results
    BY <1>3, PhaseIsSet
  <2>2. state' = IncrementIteration(s)
    BY <1>6
  <2> HIDE DEF s
  <2>3. state'.tasks = s.tasks /\ state'.results = s.results
    BY <2>1, <2>2, IterationIsCounted
  <2>. QED BY <1>1, <2>1, <2>3
<1>. QED BY <1>1, <1>2, <1>4, <1>5, <1>6

\* The finding of a task that the graph itself has researched.
LEMMA FindingIsStored ==
    ASSUME Shape, gpc = "research", state' = AddResult(CompleteTask(state, task), task)
    PROVE  /\ task \in DOMAIN state.tasks /\ task \in TaskID
           /\ DOMAIN state'.tasks = DOMAIN state.tasks
           /\ state'.tasks[task].status = "completed"
           /\ state'.tasks[task].results = state.tasks[task].results + 1
           /\ \A u \in DOMAIN state.tasks : u # task => state'.tasks[u] = state.tasks[u]
           /\ state'.results = Append(state.results, task)
           /\ state'.iterations = state.iterations
<1> DEFINE s == CompleteTask(state, task)
<1>1. IsGraphState(state) /\ task \in DOMAIN state.tasks /\ task \in TaskID
  BY DEF Shape, TypeOK, Places, Working
<1>2. /\ IsGraphState(s) /\ DOMAIN s.tasks = DOMAIN state.tasks
      /\ s.tasks[task].status = "completed"
      /\ s.tasks[task].results = state.tasks[task].results + 1
      /\ \A u \in DOMAIN state.tasks : u # task => s.tasks[u] = state.tasks[u]
      /\ s.results = state.results /\ s.iterations = state.iterations
  BY <1>1, TaskIsCompleted
<1>3. state' = AddResult(s, task)
  OBVIOUS
<1> HIDE DEF s
<1>4. /\ state'.tasks = s.tasks /\ state'.results = Append(s.results, task)
      /\ state'.iterations = s.iterations
  BY <1>1, <1>2, <1>3, ResultIsAdded
<1>. QED BY <1>1, <1>2, <1>4

LEMMA AddingFinite == ASSUME NEW t PROVE IsFiniteSet(Adding(t)) /\ Cardinality(Adding(t)) \in Nat
<1>1. IsFiniteSet(Adding(t))
  BY ResearchGraphAssumption, FS_Subset DEF Adding
<1>. QED BY <1>1, FS_CardinalityType

LEMMA RecordsKept ==
    ASSUME RecordsAgree, state'.tasks = state.tasks, state'.results = state.results,
           \A t \in DOMAIN state.tasks : Adding(t)' = Adding(t)
    PROVE  RecordsAgree'
<1>1. \A t : ResultsFor(state', t) = ResultsFor(state, t)
  BY SameResults
<1>. QED BY <1>1 DEF RecordsAgree

LEMMA RecordsStep == ASSUME Shape, Shape', RecordsAgree, [Next]_vars PROVE RecordsAgree'
<1> USE DEF graphVars, copyVars, poolVars
<1>0. IsGraphState(state) /\ DOMAIN state.tasks \subseteq TaskID
  BY StateFields DEF Shape, TypeOK
<1>1. CASE PlainStep
  <2>1. state'.tasks = state.tasks /\ state'.results = state.results /\ wtask' = wtask
    BY <1>1, PlainKeepsResults
  <2>2. wpc' = wpc \/ StartNode
    BY <1>1 DEF PlainStep, StartNode, ClarifyNode, SupervisorNode, DistributeNode, SubmitNode,
         CompressionNode, ReportGenerationNode, EndNode, ExtractReport, StopCloses, StopWaits,
         StopReturns, Pass, Fail
  <2>3. \A t \in DOMAIN state.tasks : Adding(t)' = Adding(t)
    <3>1. CASE wpc' = wpc
      BY <2>1, <3>1 DEF Adding
    <3>2. CASE StartNode
      BY <3>2 DEF StartNode, Go, Shape, Places, Idle, Early
    <3>. QED BY <2>2, <3>1, <3>2
  <2>. QED BY <2>1, <2>3, RecordsKept
<1>2. CASE PlanningNode
  <2>1. \A t : Adding(t)' = Adding(t)
    BY <1>2 DEF PlanningNode, Fail, Adding
  <2>2. CASE UNCHANGED state
    BY <2>1, <2>2, RecordsKept
  <2>3. CASE ~UNCHANGED state
    <3>1. gpc = "planning" /\ state' = Planned
      BY <1>2, <2>3 DEF PlanningNode, Go
    <3>2. state'.tasks = [t \in TaskID |-> NewTask] /\ state'.results = <<>>
      BY <1>0, <3>1, PlannedState DEF Shape, Places, Idle, Early
    <3>3. \A t \in TaskID : Adding(t) = {}
      BY <3>1, ResearchGraphAssumption DEF Shape, Places, Idle, Early, Adding
    <3>4. \A t \in TaskID : ResultsFor(state', t) = 0
      BY <3>2, NoResults
    <3>5. SUFFICES ASSUME NEW t \in TaskID
                   PROVE  /\ state'.tasks[t].results =
                                 ResultsFor(state', t) + Cardinality(Adding(t)')
                          /\ state'.tasks[t].results > 0 <=> state'.tasks[t].status = "completed"
      BY <3>2 DEF RecordsAgree
    <3>6. Cardinality(Adding(t)') = 0
      BY <2>1, <3>3, FS_EmptySet
    <3>7. state'.tasks[t].results = 0 /\ state'.tasks[t].status = "pending"
      BY <3>2 DEF NewTask
    <3>. QED BY <3>4, <3>6, <3>7
  <2>. QED BY <2>2, <2>3
<1>3. CASE ResearcherNode
  <2>1. \A t : Adding(t)' = Adding(t)
    BY <1>3 DEF ResearcherNode, Adding
  <2>2. CASE UNCHANGED state
    BY <2>1, <2>2, RecordsKept
  <2>3. CASE ~UNCHANGED state
    <3>1. PICK t \in NextPendingTasks(state) : state' = UpdateTask(state, t, "in_progress")
      BY <1>3, <2>3 DEF ResearcherNode, Go
    <3>2. t \in DOMAIN state.tasks /\ state.tasks[t].status = "pending"
      BY DEF NextPendingTasks, GetPendingTasks, Known
    <3>3. /\ DOMAIN state'.tasks = DOMAIN state.tasks
          /\ state'.tasks[t].status = "in_progress"
          /\ state'.tasks[t].results = state.tasks[t].results
          /\ \A u \in DOMAIN state.tasks : u # t => state'.tasks[u] = state.tasks[u]
          /\ state'.results = state.results
      BY <1>0, <3>1, <3>2, TaskIsUpdated DEF TaskStatus
    <3>4. \A u : ResultsFor(state', u) = ResultsFor(state, u)
      BY <3>3, SameResults
    <3>. QED BY <2>1, <3>2, <3>3, <3>4 DEF RecordsAgree
  <2>. QED BY <2>2, <2>3
<1>4. CASE ExecuteResearch
  <2>1. \A t : Adding(t)' = Adding(t)
    BY <1>4 DEF ExecuteResearch, Fail, Adding
  <2>2. /\ gpc = "research" /\ task \in DOMAIN state.tasks
        /\ state.tasks[task].status = "in_progress"
    BY <1>4 DEF ExecuteResearch, Fail, Go, Shape, Places, Working
  <2>3. CASE state' = UpdateTask(state, task, "failed")
    <3>1. /\ DOMAIN state'.tasks = DOMAIN state.tasks
          /\ state'.tasks[task].status = "failed"
          /\ state'.tasks[task].results = state.tasks[task].results
          /\ \A u \in DOMAIN state.tasks : u # task => state'.tasks[u] = state.tasks[u]
          /\ state'.results = state.results
      BY <1>0, <2>2, <2>3, TaskIsUpdated DEF TaskStatus
    <3>2. \A u : ResultsFor(state', u) = ResultsFor(state, u)
      BY <3>1, SameResults
    <3>. QED BY <2>1, <2>2, <3>1, <3>2 DEF RecordsAgree
  <2>4. CASE state' = AddResult(CompleteTask(state, task), task)
    <3>1. /\ task \in TaskID /\ DOMAIN state'.tasks = DOMAIN state.tasks
          /\ state'.tasks[task].status = "completed"
          /\ state'.tasks[task].results = state.tasks[task].results + 1
          /\ \A u \in DOMAIN state.tasks : u # task => state'.tasks[u] = state.tasks[u]
          /\ state'.results = Append(state.results, task)
      BY <2>2, <2>4, FindingIsStored
    <3>2. \A u : ResultsFor(state', u) = ResultsFor(state, u) + (IF u = task THEN 1 ELSE 0)
      BY <1>0, <3>1, OneMoreResult
    <3>3. ASSUME NEW u \in DOMAIN state.tasks
          PROVE  /\ state'.tasks[u].results = ResultsFor(state', u) + Cardinality(Adding(u)')
                 /\ state'.tasks[u].results > 0 <=> state'.tasks[u].status = "completed"
      <4>1. /\ ResultsFor(state, u) \in Nat /\ Cardinality(Adding(u)) \in Nat
            /\ state.tasks[u].results = ResultsFor(state, u) + Cardinality(Adding(u))
            /\ state.tasks[u].results > 0 <=> state.tasks[u].status = "completed"
        BY <1>0, ResultsForType, AddingFinite DEF RecordsAgree
      <4>2. CASE u = task
        BY <2>1, <3>1, <3>2, <4>1, <4>2
      <4>3. CASE u # task
        BY <2>1, <3>1, <3>2, <4>1, <4>3
      <4>. QED BY <4>2, <4>3
    <3>. QED BY <3>1, <3>3 DEF RecordsAgree
  <2>. QED BY <1>4, <2>3, <2>4 DEF ExecuteResearch
<1>5. ASSUME NEW w \in Worker, WorkerStep(w) PROVE RecordsAgree'
  <2>0. /\ wpc \in [Worker -> {"unborn", "select", "executing", "adding", "offering", "exited"}]
        /\ wtask \in [Worker -> TaskID \cup {NoTask}]
        /\ wpc[w] \in {"executing", "adding"} <=> wtask[w] # NoTask
    BY DEF Shape, TypeOK, HeldTyped
  <2>1. CASE ~WorkerCompletes(w) /\ ~WorkerAddsResult(w)
    <3>1. /\ wpc[w] # "adding" /\ wpc'[w] # "adding" /\ UNCHANGED state
          /\ \A v \in Worker : v # w => wpc'[v] = wpc[v] /\ wtask'[v] = wtask[v]
      BY <1>5, <2>0, <2>1
         DEF WorkerStep, Receive, WorkerFails, WorkerRecovers, WorkerOffers, WorkerPanics, Crash,
             WorkerLeaves, Move
    <3>2. \A t : Adding(t)' = Adding(t)
      BY <3>1 DEF Adding
    <3>. QED BY <3>1, <3>2, RecordsKept
  <2>2. CASE WorkerCompletes(w)
    <3> DEFINE t == wtask[w]
    <3>1. /\ wpc[w] = "executing" /\ wpc' = [wpc EXCEPT ![w] = "adding"] /\ wtask' = wtask
          /\ state' = CompleteTask(state, t)
      BY <2>2 DEF WorkerCompletes, Move
    <3>2. t \in DOMAIN state.tasks
      BY <2>0, <3>1 DEF Shape, TasksPlanned, Idle
    <3> HIDE DEF t
    <3>3. /\ DOMAIN state'.tasks = DOMAIN state.tasks
          /\ state'.tasks[t].status = "completed"
          /\ state'.tasks[t].results = state.tasks[t].results + 1
          /\ \A u \in DOMAIN state.tasks : u # t => state'.tasks[u] = state.tasks[u]
          /\ state'.results = state.results
      BY <1>0, <3>1, <3>2, TaskIsCompleted
    <3>4. \A u : ResultsFor(state', u) = ResultsFor(state, u)
      BY <3>3, SameResults
    <3>5. ASSUME NEW u \in DOMAIN state.tasks
          PROVE  /\ state'.tasks[u].results = ResultsFor(state', u) + Cardinality(Adding(u)')
                 /\ state'.tasks[u].results > 0 <=> state'.tasks[u].status = "completed"
      <4>1. /\ ResultsFor(state, u) \in Nat /\ Cardinality(Adding(u)) \in Nat
            /\ state.tasks[u].results = ResultsFor(state, u) + Cardinality(Adding(u))
            /\ state.tasks[u].results > 0 <=> state.tasks[u].status = "completed"
        BY <1>0, ResultsForType, AddingFinite DEF RecordsAgree
      <4>2. CASE u = t
        <5>1. Adding(u)' = Adding(u) \cup {w} /\ w \notin Adding(u)
          BY <2>0, <3>1, <4>2 DEF Adding, t
        <5>2. Cardinality(Adding(u)') = Cardinality(Adding(u)) + 1
          BY <5>1, AddingFinite, FS_AddElement
        <5>. QED BY <3>3, <3>4, <4>1, <4>2, <5>2
      <4>3. CASE u # t
        <5>1. Adding(u)' = Adding(u)
          BY <2>0, <3>1, <4>3 DEF Adding, t
        <5>. QED BY <3>3, <3>4, <4>1, <4>3, <5>1
      <4>. QED BY <4>2, <4>3
    <3>. QED BY <3>3, <3>5 DEF RecordsAgree
  <2>3. CASE WorkerAddsResult(w)
    <3> DEFINE t == wtask[w]
    <3>1. /\ wpc[w] = "adding" /\ wpc' = [wpc EXCEPT ![w] = "offering"]
          /\ wtask' = [wtask EXCEPT ![w] = NoTask]
          /\ state' = AddResult(state, t)
      BY <2>3 DEF WorkerAddsResult, Move
    <3>2. t \in TaskID
      BY <2>0, <3>1
    <3> HIDE DEF t
    <3>3. state'.tasks = state.tasks /\ state'.results = Append(state.results, t)
      BY <1>0, <3>1, <3>2, ResultIsAdded
    <3>4. \A u : ResultsFor(state', u) = ResultsFor(state, u) + (IF u = t THEN 1 ELSE 0)
      BY <1>0, <3>2, <3>3, OneMoreResult
    <3>5. ASSUME NEW u \in DOMAIN state.tasks
          PROVE  /\ state'.tasks[u].results = ResultsFor(state', u) + Cardinality(Adding(u)')
                 /\ state'.tasks[u].results > 0 <=> state'.tasks[u].status = "completed"
      <4>1. /\ ResultsFor(state, u) \in Nat /\ Cardinality(Adding(u)) \in Nat
            /\ state.tasks[u].results = ResultsFor(state, u) + Cardinality(Adding(u))
            /\ state.tasks[u].results > 0 <=> state.tasks[u].status = "completed"
        BY <1>0, ResultsForType, AddingFinite DEF RecordsAgree
      <4>2. CASE u = t
        <5>1. Adding(u)' = Adding(u) \ {w} /\ w \in Adding(u)
          BY <1>0, <2>0, <3>1, <4>2, ResearchGraphAssumption DEF Adding, t
        <5>2. Cardinality(Adding(u)') = Cardinality(Adding(u)) - 1
          BY <5>1, AddingFinite, FS_RemoveElement
        <5>. QED BY <3>3, <3>4, <4>1, <4>2, <5>2
      <4>3. CASE u # t
        <5>1. Adding(u)' = Adding(u)
          BY <1>0, <2>0, <3>1, <4>3, ResearchGraphAssumption DEF Adding, t
        <5>. QED BY <3>3, <3>4, <4>1, <4>3, <5>1
      <4>. QED BY <4>2, <4>3
    <3>. QED BY <3>3, <3>5 DEF RecordsAgree
  <2>. QED BY <2>1, <2>2, <2>3
<1>6. ASSUME NEW t \in TaskID, RetryStep(t) PROVE RecordsAgree'
  <2>1. UNCHANGED <<state, wpc, wtask>>
    BY <1>6 DEF RetryStep, RetryWakes, RetrySends, RetryGivesUp, RetryPanics, Crash
  <2>. QED BY <2>1, RecordsKept DEF Adding
<1>7. CASE UNCHANGED vars
  <2>1. UNCHANGED <<state, wpc, wtask>>
    BY <1>7 DEF vars
  <2>. QED BY <2>1, RecordsKept DEF Adding
<1>. QED
  BY <1>1, <1>2, <1>3, <1>4, <1>5, <1>6, <1>7 DEF Next, GraphStep, PlainStep

\* However the calls of the graph and of the workers fall between one another, no
\* finding is lost or doubled between its task's record and the state's: the two differ
\* by the workers that stand between UpdateTask and AddResult (processTask).
THEOREM RecordsAlwaysAgree == Spec => []RecordsAgree
<1>1. Init => RecordsAgree
  <2> SUFFICES ASSUME Init PROVE DOMAIN state.tasks = {}
    BY DEF RecordsAgree
  <2>. QED BY StartState DEF Init
<1>2. Shape /\ Shape' /\ RecordsAgree /\ [Next]_vars => RecordsAgree'
  BY RecordsStep
<1>. QED BY <1>1, <1>2, ShapeHolds, PTL DEF Spec

-----------------------------------------------------------------------------
(* The copies of a task.                                                   *)

\* The task the graph itself is about to finish counts as one copy: its iteration is
\* counted before the researcher node picks it.
OnItsWay == IF gpc \in {"researcher", "research"} THEN 1 ELSE 0

Copies(t) ==
    ResultsFor(state, t) + queued[t] + backoff[t] + sending[t] + Cardinality(Holding(t))

\* Every iteration brings at most one more copy of a task.
CopiesCounted == \A t \in TaskID : Copies(t) + OnItsWay <= state.iterations

LEMMA CopiesTyped ==
    ASSUME Shape, NEW t \in TaskID
    PROVE  /\ ResultsFor(state, t) \in Nat /\ queued[t] \in Nat /\ backoff[t] \in Nat
           /\ sending[t] \in Nat
           /\ IsFiniteSet(Holding(t)) /\ Cardinality(Holding(t)) \in Nat
           /\ OnItsWay \in Nat /\ state.iterations \in Nat
<1>1. IsFiniteSet(Holding(t))
  BY ResearchGraphAssumption, FS_Subset DEF Holding
<1>2. IsGraphState(state)
  BY DEF Shape, TypeOK
<1>. QED
  BY <1>1, <1>2, FS_CardinalityType, ResultsForType, StateFields DEF Shape, TypeOK, OnItsWay

\* Steps that leave every count of copies alone.
LEMMA CopiesKept ==
    ASSUME Shape, CopiesCounted, UNCHANGED copyVars,
           state'.results = state.results, state'.iterations \in Int,
           OnItsWay' - OnItsWay <= state'.iterations - state.iterations
    PROVE  CopiesCounted'
<1>1. OnItsWay' \in Nat
  BY DEF OnItsWay
<1>2. ASSUME NEW t \in TaskID PROVE Copies(t)' = Copies(t) /\ Copies(t) \in Nat
  <2>1. ResultsFor(state, t)' = ResultsFor(state, t) /\ Holding(t)' = Holding(t)
    BY DEF ResultsFor, Holding, copyVars
  <2>. QED BY <2>1, CopiesTyped DEF Copies, copyVars
<1>3. ASSUME NEW t \in TaskID PROVE Copies(t)' + OnItsWay' <= state'.iterations
  <2>1. Copies(t) + OnItsWay <= state.iterations
    BY DEF CopiesCounted
  <2>2. OnItsWay \in Nat /\ state.iterations \in Nat
    BY CopiesTyped
  <2>. QED BY <1>1, <1>2, <2>1, <2>2
<1>. QED BY <1>3 DEF CopiesCounted

\* The iterations that a plain step counts.
LEMMA PlainCounts ==
    ASSUME Shape, PlainStep
    PROVE  /\ SubmitNode => state'.iterations = state.iterations + 1 /\ OnItsWay' = OnItsWay
           /\ ~SubmitNode =>
                 /\ state'.iterations \in Int
                 /\ OnItsWay' - OnItsWay = state'.iterations - state.iterations
<1>0. IsGraphState(state) /\ "research" \in Phase /\ "compression" \in Phase
      /\ state.iterations \in Nat
  BY StateFields DEF Shape, TypeOK, Phase
<1>1. CASE SubmitNode
  <2>1. state'.iterations = state.iterations + 1
    BY <1>0, <1>1, IterationIsCounted DEF SubmitNode
  <2>. QED BY <1>1, <2>1 DEF SubmitNode, Go, OnItsWay
<1>2. CASE SupervisorNode
  <2>1. gpc = "supervisor" /\ OnItsWay = 0 /\ ~SubmitNode
    BY <1>2 DEF SupervisorNode, Go, OnItsWay, SubmitNode
  <2>2. CASE gpc' = "researcher"
    <3> DEFINE s == SetPhase(state, "research")
    <3>1. state' = IncrementIteration(s)
      BY <1>2, <2>2 DEF SupervisorNode, Go
    <3>2. IsGraphState(s) /\ s.iterations = state.iterations
      BY <1>0, PhaseIsSet
    <3> HIDE DEF s
    <3>3. state'.iterations = state.iterations + 1
      BY <3>1, <3>2, IterationIsCounted
    <3>4. OnItsWay' = 1
      BY <2>2 DEF OnItsWay
    <3>. QED BY <1>0, <2>1, <3>3, <3>4
  <2>3. CASE gpc' # "researcher"
    <3>1. OnItsWay' = 0 /\ (UNCHANGED state \/ state' = SetPhase(state, "compression"))
      BY <1>2, <2>3 DEF SupervisorNode, Go, OnItsWay
    <3>2. state'.iterations = state.iterations
      BY <1>0, <3>1, PhaseIsSet
    <3>. QED BY <1>0, <2>1, <3>1, <3>2
  <2>. QED BY <2>2, <2>3
<1>3. CASE ~SubmitNode /\ ~SupervisorNode
  <2>1. UNCHANGED state \/ \E phase \in Phase : state' = SetPhase(state, phase)
    BY <1>3 DEF PlainStep, StartNode, ClarifyNode, DistributeNode, CompressionNode,
         ReportGenerationNode, EndNode, ExtractReport, StopCloses, StopWaits, StopReturns, Pass,
         Fail, Phase
  <2>2. gpc \notin {"researcher", "research"} /\ gpc' \notin {"researcher", "research"}
    BY <1>3 DEF PlainStep, StartNode, ClarifyNode, DistributeNode, CompressionNode,
         ReportGenerationNode, EndNode, ExtractReport, StopCloses, StopWaits, StopReturns, Pass,
         Fail, Go, Leave
  <2>3. state'.iterations = state.iterations
    BY <1>0, <2>1, PhaseIsSet
  <2>4. OnItsWay' = 0 /\ OnItsWay = 0
    BY <2>2 DEF OnItsWay
  <2>. QED BY <1>0, <1>3, <2>3, <2>4
<1>. QED BY <1>1, <1>2, <1>3

LEMMA CopiesInGraph == ASSUME Shape, CopiesCounted, GraphStep PROVE CopiesCounted'
<1> USE DEF graphVars, copyVars, poolVars
<1>0. IsGraphState(state) /\ state.iterations \in Nat
  BY StateFields DEF Shape, TypeOK
<1>1. CASE PlainStep /\ ~SubmitNode
  <2>1. state'.results = state.results /\ UNCHANGED copyVars
    BY <1>1, PlainKeepsResults
  <2>2. /\ state'.iterations \in Int
        /\ OnItsWay' - OnItsWay = state'.iterations - state.iterations
    BY <1>1, PlainCounts
  <2>3. OnItsWay \in Nat /\ OnItsWay' \in Nat
    BY DEF OnItsWay
  <2>. QED BY <1>0, <2>1, <2>2, <2>3, CopiesKept
<1>2. CASE SubmitNode
  <2>1. /\ state'.results = state.results /\ UNCHANGED <<backoff, sending, wtask>>
        /\ state'.iterations = state.iterations + 1 /\ OnItsWay' = OnItsWay
    BY <1>2, PlainKeepsResults, PlainCounts DEF PlainStep
  <2>2. ASSUME NEW t \in TaskID PROVE Copies(t)' + OnItsWay' <= state'.iterations
    <3>1. queued'[t] \in {queued[t], queued[t] + 1}
      BY <1>2 DEF SubmitNode
    <3>2. ResultsFor(state, t)' = ResultsFor(state, t) /\ Holding(t)' = Holding(t)
      BY <2>1 DEF ResultsFor, Holding
    <3>3. Copies(t) + OnItsWay <= state.iterations
      BY DEF CopiesCounted
    <3>. QED BY <2>1, <3>1, <3>2, <3>3, CopiesTyped DEF Copies
  <2>. QED BY <2>2 DEF CopiesCounted
<1>3. CASE PlanningNode
  <2>1. UNCHANGED copyVars /\ OnItsWay' = 0 /\ OnItsWay = 0
    BY <1>3 DEF PlanningNode, Fail, Go, Leave, OnItsWay
  <2>2. state'.results = state.results /\ state'.iterations = state.iterations
    BY <1>0, <1>3, PlannedState DEF PlanningNode
  <2>. QED BY <1>0, <2>1, <2>2, CopiesKept
<1>4. CASE ResearcherNode
  <2>1. UNCHANGED copyVars /\ OnItsWay' <= 1 /\ OnItsWay = 1
    BY <1>4 DEF ResearcherNode, Go, OnItsWay
  <2>2. state'.results = state.results /\ state'.iterations = state.iterations
    <3>1. CASE UNCHANGED state
      BY <3>1
    <3>2. CASE ~UNCHANGED state
      <4>1. PICK t \in NextPendingTasks(state) : state' = UpdateTask(state, t, "in_progress")
        BY <1>4, <3>2 DEF ResearcherNode, Go
      <4>2. t \in DOMAIN state.tasks
        BY DEF NextPendingTasks, GetPendingTasks, Known
      <4>. QED BY <1>0, <4>1, <4>2, TaskIsUpdated DEF TaskStatus
    <3>. QED BY <3>1, <3>2
  <2>3. OnItsWay' \in Nat
    BY DEF OnItsWay
  <2>. QED BY <1>0, <2>1, <2>2, <2>3, CopiesKept
<1>5. CASE ExecuteResearch
  <2>1. /\ UNCHANGED copyVars
        /\ gpc = "research" /\ OnItsWay' = 0 /\ OnItsWay = 1
    BY <1>5 DEF ExecuteResearch, Fail, Go, Leave, OnItsWay
  <2>2. CASE state' = UpdateTask(state, task, "failed")
    <3>1. task \in DOMAIN state.tasks
      BY <2>1 DEF Shape, Places, Working
    <3>2. state'.results = state.results /\ state'.iterations = state.iterations
      BY <1>0, <2>2, <3>1, TaskIsUpdated DEF TaskStatus
    <3>. QED BY <1>0, <2>1, <3>2, CopiesKept
  <2>3. CASE state' = AddResult(CompleteTask(state, task), task)
    <3>1. /\ task \in TaskID /\ state'.results = Append(state.results, task)
          /\ state'.iterations = state.iterations
      BY <2>1, <2>3, FindingIsStored
    <3>2. ASSUME NEW t \in TaskID PROVE Copies(t)' + OnItsWay' <= state'.iterations
      <4>1. ResultsFor(state', t) \in {ResultsFor(state, t), ResultsFor(state, t) + 1}
        <5>1. ResultsFor(state', t) = ResultsFor(state, t) + (IF t = task THEN 1 ELSE 0)
          BY <1>0, <3>1, OneMoreResult
        <5>. QED BY <5>1, CopiesTyped
      <4>2. Holding(t)' = Holding(t) /\ UNCHANGED <<queued, backoff, sending>>
        BY <2>1 DEF Holding, copyVars
      <4>3. Copies(t) + 1 <= state.iterations
        BY <2>1 DEF CopiesCounted
      <4>4. Copies(t)' <= Copies(t) + 1
        BY <4>1, <4>2, CopiesTyped DEF Copies
      <4>5. Copies(t) \in Nat /\ Copies(t)' \in Nat /\ state.iterations \in Nat
        BY <4>1, <4>2, CopiesTyped DEF Copies
      <4>. QED BY <2>1, <3>1, <4>3, <4>4, <4>5
    <3>. QED BY <3>2 DEF CopiesCounted
  <2>. QED BY <1>5, <2>2, <2>3 DEF ExecuteResearch
<1>. QED BY <1>1, <1>2, <1>3, <1>4, <1>5 DEF GraphStep, PlainStep

LEMMA CopiesAtWorkers ==
    ASSUME Shape, CopiesCounted, NEW w \in Worker, WorkerStep(w)
    PROVE  CopiesCounted'
<1> USE DEF graphVars, copyVars, poolVars
<1>0. /\ IsGraphState(state) /\ wtask \in [Worker -> TaskID \cup {NoTask}]
      /\ queued \in [TaskID -> Nat] /\ backoff \in [TaskID -> Nat]
      /\ wpc[w] \in {"executing", "adding"} <=> wtask[w] # NoTask
      /\ NoTask \notin TaskID
  BY ResearchGraphAssumption DEF Shape, TypeOK, HeldTyped
<1>1. OnItsWay' = OnItsWay /\ sending' = sending
  BY DEF WorkerStep, Receive, WorkerFails, WorkerRecovers, WorkerCompletes, WorkerAddsResult,
         WorkerOffers, WorkerPanics, WorkerLeaves, Crash, OnItsWay
<1>2. CASE Receive(w)
  <2>1. PICK t \in TaskID : /\ queued[t] > 0
                            /\ wtask' = [wtask EXCEPT ![w] = t]
                            /\ queued' = [queued EXCEPT ![t] = @ - 1]
    BY <1>2 DEF Receive
  <2>2. wpc[w] = "select" /\ wtask[w] = NoTask /\ UNCHANGED <<state, backoff>>
    BY <1>0, <1>2 DEF Receive, Move
  <2>3. ASSUME NEW u \in TaskID PROVE Copies(u)' = Copies(u)
    <3>1. ResultsFor(state, u)' = ResultsFor(state, u)
      BY <2>2
    <3>2. CASE u = t
      <4>1. Holding(u)' = Holding(u) \cup {w} /\ w \notin Holding(u)
        BY <1>0, <2>1, <2>2, <3>2 DEF Holding
      <4>2. Cardinality(Holding(u)') = Cardinality(Holding(u)) + 1
        BY <4>1, CopiesTyped, FS_AddElement
      <4>3. queued'[u] = queued[u] - 1
        BY <1>0, <2>1, <3>2
      <4>4. backoff'[u] = backoff[u] /\ sending'[u] = sending[u]
        BY <1>1, <2>2
      <4>. QED BY <3>1, <4>2, <4>3, <4>4, CopiesTyped DEF Copies
    <3>3. CASE u # t
      <4>1. Holding(u)' = Holding(u)
        BY <1>0, <2>1, <2>2, <3>3 DEF Holding
      <4>2. queued'[u] = queued[u]
        BY <1>0, <2>1, <3>3
      <4>. QED BY <1>1, <2>2, <3>1, <4>1, <4>2 DEF Copies
    <3>. QED BY <3>2, <3>3
  <2>. QED BY <1>1, <2>2, <2>3 DEF CopiesCounted
<1>3. CASE WorkerFails(w) \/ WorkerRecovers(w) \/ WorkerAddsResult(w)
  <2>0. wtask[w] \in TaskID
    BY <1>0, <1>3 DEF WorkerFails, WorkerRecovers, WorkerAddsResult, Move
  <2> PICK t \in TaskID : t = wtask[w]
    BY <2>0
  <2>1. /\ t \in TaskID /\ wtask' = [wtask EXCEPT ![w] = NoTask] /\ queued' = queued
    BY <1>3 DEF WorkerFails, WorkerRecovers, WorkerAddsResult
  <2>2. /\ Holding(t)' = Holding(t) \ {w} /\ w \in Holding(t)
        /\ \A u \in TaskID : u # t => Holding(u)' = Holding(u)
    BY <1>0, <2>1 DEF Holding
  <2>3. Cardinality(Holding(t)') = Cardinality(Holding(t)) - 1
    BY <2>1, <2>2, CopiesTyped, FS_RemoveElement
  <2>4. CASE WorkerFails(w) \/ WorkerRecovers(w)
    <3>1. UNCHANGED state
      BY <2>4 DEF WorkerFails, WorkerRecovers
    <3>2. /\ backoff'[t] \in {backoff[t], backoff[t] + 1}
          /\ \A u \in TaskID : u # t => backoff'[u] = backoff[u]
      BY <1>0, <2>1, <2>4 DEF WorkerFails, WorkerRecovers
    <3>3. ASSUME NEW u \in TaskID PROVE Copies(u)' + OnItsWay' <= state'.iterations
      <4>1. Copies(u) + OnItsWay <= state.iterations /\ ResultsFor(state, u)' = ResultsFor(state, u)
        BY <3>1 DEF CopiesCounted
      <4>2. CASE u = t
        <5>1. /\ Cardinality(Holding(u)') = Cardinality(Holding(u)) - 1
              /\ backoff'[u] \in {backoff[u], backoff[u] + 1} /\ queued'[u] = queued[u]
          BY <2>1, <2>3, <3>2, <4>2
        <5>. QED BY <1>1, <3>1, <4>1, <5>1, CopiesTyped DEF Copies
      <4>3. CASE u # t
        BY <1>1, <2>1, <2>2, <3>1, <3>2, <4>1, <4>3, CopiesTyped DEF Copies
      <4>. QED BY <4>2, <4>3
    <3>. QED BY <3>3 DEF CopiesCounted
  <2>5. CASE WorkerAddsResult(w)
    <3>1. state' = AddResult(state, t) /\ backoff' = backoff
      BY <2>5 DEF WorkerAddsResult
    <3>2. state'.results = Append(state.results, t) /\ state'.iterations = state.iterations
      BY <1>0, <2>1, <3>1, ResultIsAdded
    <3>3. ASSUME NEW u \in TaskID PROVE Copies(u)' = Copies(u)
      <4>1. ResultsFor(state', u) = ResultsFor(state, u) + (IF u = t THEN 1 ELSE 0)
        BY <1>0, <2>1, <3>2, OneMoreResult
      <4>2. CASE u = t
        <5>1. ResultsFor(state', u) = ResultsFor(state, u) + 1
          BY <4>1, <4>2
        <5>2. Cardinality(Holding(u)') = Cardinality(Holding(u)) - 1
          BY <2>3, <4>2
        <5>. QED BY <1>1, <2>1, <3>1, <5>1, <5>2, CopiesTyped DEF Copies
      <4>3. CASE u # t
        <5>1. ResultsFor(state', u) = ResultsFor(state, u)
          BY <4>1, <4>3, CopiesTyped
        <5>2. Holding(u)' = Holding(u)
          BY <2>2, <4>3
        <5>. QED BY <1>1, <2>1, <3>1, <5>1, <5>2 DEF Copies
      <4>. QED BY <4>2, <4>3
    <3>. QED BY <1>1, <3>2, <3>3 DEF CopiesCounted
  <2>. QED BY <1>3, <2>4, <2>5
<1>4. CASE WorkerCompletes(w)
  <2>1. /\ wpc[w] = "executing" /\ state' = CompleteTask(state, wtask[w])
        /\ UNCHANGED copyVars
    BY <1>4 DEF WorkerCompletes, Move
  <2>2. wtask[w] \in DOMAIN state.tasks
    BY <1>0, <2>1 DEF Shape, TasksPlanned, Idle
  <2>3. state'.results = state.results /\ state'.iterations = state.iterations
    BY <1>0, <2>1, <2>2, TaskIsCompleted
  <2>4. state.iterations \in Nat /\ OnItsWay \in Nat
    BY <1>0, StateFields DEF OnItsWay
  <2>. QED BY <1>1, <2>1, <2>3, <2>4, CopiesKept
<1>5. CASE WorkerLeaves(w) \/ WorkerOffers(w) \/ WorkerPanics(w)
  <2>1. UNCHANGED <<state, copyVars>>
    BY <1>5 DEF WorkerLeaves, WorkerOffers, WorkerPanics, Crash
  <2>2. state.iterations \in Nat /\ OnItsWay \in Nat
    BY <1>0, StateFields DEF OnItsWay
  <2>. QED BY <1>1, <2>1, <2>2, CopiesKept
<1>. QED BY <1>2, <1>3, <1>4, <1>5 DEF WorkerStep

\* A retry takes a copy out of its backoff or out of Submit and may lose it.
LEMMA CopiesInRetry ==
    ASSUME Shape, CopiesCounted, NEW t \in TaskID, RetryStep(t)
    PROVE  CopiesCounted'
<1>0. /\ backoff \in [TaskID -> Nat] /\ queued \in [TaskID -> Nat] /\ sending \in [TaskID -> Nat]
      /\ state.iterations \in Nat
  BY CopiesTyped DEF Shape, TypeOK
<1>1. UNCHANGED <<gpc, state, wtask>>
  BY DEF RetryStep, RetryWakes, RetrySends, RetryGivesUp, RetryPanics, Crash, graphVars, copyVars
<1>2. /\ queued'[t] \in Nat /\ backoff'[t] \in Nat /\ sending'[t] \in Nat
      /\ queued'[t] + backoff'[t] + sending'[t] <= queued[t] + backoff[t] + sending[t]
      /\ \A u \in TaskID : u # t => /\ queued'[u] = queued[u] /\ backoff'[u] = backoff[u]
                                     /\ sending'[u] = sending[u]
  <2>1. CASE RetryWakes(t)
    BY <1>0, <2>1 DEF RetryWakes
  <2>2. CASE RetrySends(t)
    BY <1>0, <2>2 DEF RetrySends
  <2>3. CASE RetryGivesUp(t)
    BY <1>0, <2>3 DEF RetryGivesUp
  <2>4. CASE RetryPanics(t)
    BY <1>0, <2>4 DEF RetryPanics, Crash, copyVars
  <2>. QED BY <2>1, <2>2, <2>3, <2>4 DEF RetryStep
<1>3. OnItsWay' = OnItsWay
  BY <1>1 DEF OnItsWay
<1>4. ASSUME NEW u \in TaskID PROVE Copies(u)' + OnItsWay' <= state'.iterations
  <2>1. Copies(u) + OnItsWay <= state.iterations
    BY DEF CopiesCounted
  <2>2. ResultsFor(state, u)' = ResultsFor(state, u) /\ Holding(u)' = Holding(u)
    BY <1>1 DEF Holding
  <2>3. CASE u = t
    BY <1>0, <1>1, <1>2, <1>3, <2>1, <2>2, <2>3, CopiesTyped DEF Copies
  <2>4. CASE u # t
    BY <1>1, <1>2, <1>3, <2>1, <2>2, <2>4, CopiesTyped DEF Copies
  <2>. QED BY <2>3, <2>4
<1>. QED BY <1>4 DEF CopiesCounted

LEMMA CopiesStep == ASSUME Shape, CopiesCounted, [Next]_vars PROVE CopiesCounted'
<1>1. CASE UNCHANGED vars
  BY <1>1 DEF vars, graphVars, copyVars, poolVars, CopiesCounted, Copies, OnItsWay, Holding
<1>. QED
  BY <1>1, CopiesInGraph, CopiesAtWorkers, CopiesInRetry DEF Next

LEMMA CopiesInit == ASSUME Init PROVE CopiesCounted
<1>1. state.results = <<>> /\ state.iterations = 0
  BY StartState DEF Init
<1>2. ASSUME NEW t \in TaskID PROVE Copies(t) = 0
  <2>1. ResultsFor(state, t) = 0
    BY <1>1, NoResults
  <2>2. Cardinality(Holding(t)) = 0
    <3>1. Holding(t) = {}
      BY ResearchGraphAssumption DEF Init, Holding
    <3>. QED BY <3>1, FS_EmptySet
  <2>. QED BY <2>1, <2>2 DEF Init, Copies
<1>. QED BY <1>1, <1>2 DEF Init, CopiesCounted, OnItsWay

\* The graph hands a task out again as long as no worker has marked it as completed:
\* the model is asked at most once per iteration and task, and no retry adds to that.
THEOREM CopiesBounded == Spec => []DuplicatesBounded
<1>1. Init => CopiesCounted
  BY CopiesInit
<1>2. Shape /\ CopiesCounted /\ [Next]_vars => CopiesCounted'
  BY CopiesStep
<1>3. Shape /\ CopiesCounted => DuplicatesBounded
  <2> SUFFICES ASSUME Shape, CopiesCounted, NEW t \in DOMAIN state.tasks
               PROVE  Copies(t) <= MaxIterations
    BY DEF DuplicatesBounded, Copies
  <2>1. t \in TaskID /\ state.iterations <= MaxIterations
    BY StateFields DEF Shape, TypeOK
  <2>2. Copies(t) + OnItsWay <= state.iterations /\ Copies(t) \in Nat /\ OnItsWay \in Nat
    BY <2>1, CopiesTyped DEF CopiesCounted, Copies
  <2>. QED BY <2>1, <2>2, CopiesTyped, GraphStateAssumption
<1>. QED BY <1>1, <1>2, <1>3, ShapeHolds, PTL DEF Spec

-----------------------------------------------------------------------------
(* What the report holds.                                                  *)

Finishing == {"compression", "report", "end", "extract"}

\* No task is left failed or in progress where the graph goes on, and without a pool
\* every iteration has completed one task.
FailedOnlyAtEnd == gpc \notin Over => Known(state, "failed") = {}
OneInProgress   == \A t \in Known(state, "in_progress") : gpc = "research" /\ t = task
SomethingToDo   == gpc = "researcher" => GetPendingTasks(state) # {}
OneEachTime     ==
    ~pooled /\ gpc \notin Over =>
        Cardinality(Known(state, "completed")) + OnItsWay = state.iterations

\* The loop has ended for one of its reasons, which remain.
LoopEnded ==
    gpc \in Finishing => DOMAIN state.tasks = {} \/ IterationsOver \/ NothingLeft

Statuses == FailedOnlyAtEnd /\ OneInProgress /\ SomethingToDo /\ OneEachTime /\ LoopEnded

\* GetNextPendingTask finds a task whenever one is pending, no priority being negative.
LEMMA NextExists ==
    ASSUME IsGraphState(state), GetPendingTasks(state) # {}
    PROVE  NextPendingTasks(state) # {}
<1> DEFINE P == GetPendingTasks(state)
           Above(t) == {u \in P : Priority[u] > Priority[t]}
           T == {Above(t) : t \in P}
<1>1. /\ P \subseteq TaskID /\ IsFiniteSet(P)
      /\ \A t \in P : Priority[t] \in Int /\ Priority[t] >= 0
  <2>1. P \subseteq TaskID
    BY StateFields DEF GetPendingTasks, Known
  <2>. QED
    BY <2>1, GraphStateAssumption, ResearchGraphAssumption, FS_Subset
<1>2. IsWellFoundedOn(StrictSubsetOrdering(P), FiniteSubsetsOf(P))
  BY FS_StrictSubsetOrderingWellFounded
<1>3. T \subseteq FiniteSubsetsOf(P) /\ T # {}
  <2>1. \A t \in P : Above(t) \in SUBSET P /\ IsFiniteSet(Above(t))
    BY <1>1, FS_Subset
  <2>. QED BY <2>1 DEF FiniteSubsetsOf
<1>4. PICK A \in T : \A B \in T : <<B, A>> \notin StrictSubsetOrdering(P)
  <2> HIDE DEF T, P
  <2>. QED BY <1>2, <1>3, WFMin
<1>5. PICK t \in P : A = Above(t)
  OBVIOUS
<1>6. A = {}
  <2> SUFFICES ASSUME NEW u \in A PROVE FALSE
    OBVIOUS
  <2>1. u \in P /\ Priority[u] > Priority[t]
    BY <1>5
  <2>2. Above(u) \subseteq A /\ u \notin Above(u)
    BY <1>1, <1>5, <2>1
  <2>3. Above(u) \in T /\ Above(u) \in SUBSET P /\ A \in SUBSET P
    BY <1>5, <2>1
  <2>4. <<Above(u), A>> \in StrictSubsetOrdering(P)
    BY <2>2, <2>3 DEF StrictSubsetOrdering
  <2>. QED BY <1>4, <2>3, <2>4
<1>7. \A u \in P : Priority[u] <= Priority[t]
  BY <1>1, <1>5, <1>6
<1>. QED BY <1>1, <1>7 DEF NextPendingTasks

LEMMA KnownKept ==
    ASSUME state'.tasks = state.tasks, NEW status
    PROVE  Known(state, status)' = Known(state, status)
BY DEF Known

LEMMA StatusesPlain == ASSUME Shape, Statuses, PlainStep PROVE Statuses'
<1> USE DEF graphVars, copyVars, poolVars
<1>0. /\ state.iterations \in Nat /\ OnItsWay \in Nat /\ OnItsWay' \in Nat
      /\ MaxIterations \in Nat /\ pooled' = pooled
  BY StateFields, GraphStateAssumption
     DEF Shape, TypeOK, OnItsWay, PlainStep, StartNode, ClarifyNode, SupervisorNode,
         DistributeNode, SubmitNode, CompressionNode, ReportGenerationNode, EndNode,
         ExtractReport, StopCloses, StopWaits, StopReturns, Pass, Fail
<1>1. state'.tasks = state.tasks
  BY PlainKeepsResults
<1>2. \A status : Known(state, status)' = Known(state, status)
  BY <1>1, KnownKept
<1>3. /\ gpc \notin {"researcher", "research"}
      /\ gpc \in Over => gpc' \in Over
      /\ gpc' = "researcher" => SupervisorNode
      /\ gpc' # "research"
      /\ gpc' \in Finishing =>
            \/ gpc \in Finishing /\ UNCHANGED pooled
            \/ gpc = "supervisor" /\ SupervisorNode
            \/ gpc = "clarify"
  BY DEF PlainStep, StartNode, ClarifyNode, SupervisorNode, DistributeNode, SubmitNode,
         CompressionNode, ReportGenerationNode, EndNode, ExtractReport, StopCloses, StopWaits,
         StopReturns, Pass, Fail, Go, Leave, Over, Finishing
<1>4. Known(state, "in_progress") = {}
  BY <1>3 DEF Statuses, OneInProgress
<1>5. FailedOnlyAtEnd' /\ OneInProgress'
  BY <1>2, <1>3, <1>4 DEF Statuses, FailedOnlyAtEnd, OneInProgress
<1>6. SomethingToDo'
  <2>1. SUFFICES ASSUME gpc' = "researcher" PROVE GetPendingTasks(state)' # {}
    BY DEF SomethingToDo
  <2>2. ~NothingLeft
    BY <1>3, <2>1 DEF SupervisorNode, Go
  <2>. QED BY <1>2, <1>4, <2>2 DEF NothingLeft, GetPendingTasks
<1>7. OneEachTime'
  <2>1. SUFFICES ASSUME ~pooled, gpc \notin Over
                 PROVE  Cardinality(Known(state, "completed")) + OnItsWay' = state'.iterations
    BY <1>0, <1>2, <1>3 DEF OneEachTime
  <2>2. ~SubmitNode
    BY <2>1 DEF SubmitNode, Go, Shape, Places
  <2>3. /\ state'.iterations \in Int
        /\ OnItsWay' - OnItsWay = state'.iterations - state.iterations
    BY <2>2, PlainCounts
  <2>4. Cardinality(Known(state, "completed")) + OnItsWay = state.iterations
    BY <2>1 DEF Statuses, OneEachTime
  <2>5. Cardinality(Known(state, "completed")) \in Int
    <3>1. IsFiniteSet(Known(state, "completed"))
      BY StateFields, GraphStateAssumption, FS_Subset DEF Known, Shape, TypeOK
    <3>. QED BY <3>1, FS_CardinalityType
  <2>. QED BY <1>0, <2>3, <2>4, <2>5
<1>8. LoopEnded'
  <2>1. SUFFICES ASSUME gpc' \in Finishing
                 PROVE  (DOMAIN state.tasks = {} \/ IterationsOver \/ NothingLeft)'
    BY DEF LoopEnded
  <2>2. NothingLeft' <=> NothingLeft
    BY <1>2 DEF NothingLeft
  <2>3. IterationsOver => IterationsOver'
    <3>1. state'.iterations >= state.iterations
      <4>1. CASE SubmitNode
        BY <1>0, <4>1, PlainCounts
      <4>2. CASE ~SubmitNode
        <5>1. /\ state'.iterations \in Int /\ OnItsWay = 0
              /\ OnItsWay' - OnItsWay = state'.iterations - state.iterations
          BY <1>3, <4>2, PlainCounts DEF OnItsWay
        <5>. QED BY <1>0, <5>1
      <4>. QED BY <4>1, <4>2
    <3>2. state'.iterations \in Int
      BY <1>0, PlainCounts
    <3>. QED BY <1>0, <3>1, <3>2 DEF IterationsOver
  <2>4. CASE gpc \in Finishing
    BY <1>1, <2>2, <2>3, <2>4 DEF Statuses, LoopEnded
  <2>5. CASE gpc = "supervisor" /\ SupervisorNode
    <3>1. IterationsOver \/ NothingLeft
      BY <2>1, <2>5 DEF SupervisorNode, Go, Finishing
    <3>. QED BY <2>2, <2>3, <3>1
  <2>6. CASE gpc = "clarify"
    BY <1>1, <2>6 DEF Shape, Places, Early, Idle
  <2>. QED BY <1>3, <2>1, <2>4, <2>5, <2>6
<1>. QED BY <1>5, <1>6, <1>7, <1>8 DEF Statuses

LEMMA StatusesPlanning == ASSUME Shape, Statuses, PlanningNode PROVE Statuses'
<1> USE DEF graphVars, copyVars, poolVars
<1>0. IsGraphState(state) /\ gpc = "planning" /\ DOMAIN state.tasks = {}
  BY DEF PlanningNode, Fail, Go, Shape, TypeOK, Places, Idle, Early
<1>1. CASE Fail("planning") /\ UNCHANGED state
  <2>1. gpc' \in Over /\ gpc' \notin Finishing /\ gpc' # "researcher"
    BY <1>1 DEF Fail, Go, Leave, Over, Finishing
  <2>2. \A status : Known(state, status)' = {}
    BY <1>0, <1>1 DEF Known
  <2>. QED BY <2>1, <2>2
          DEF Statuses, FailedOnlyAtEnd, OneInProgress, SomethingToDo, OneEachTime, LoopEnded
<1>2. CASE ~(Fail("planning") /\ UNCHANGED state)
  <2>1. gpc' = "supervisor" /\ state' = Planned /\ pooled' = pooled
    BY <1>2 DEF PlanningNode, Go
  <2>2. state'.tasks = [t \in TaskID |-> NewTask] /\ state'.iterations = state.iterations
    BY <1>0, <2>1, PlannedState
  <2>3. \A status : status # "pending" => Known(state, status)' = {} /\ Known(state, status) = {}
    BY <1>0, <2>2 DEF Known, NewTask
  <2>4. OnItsWay = 0 /\ OnItsWay' = 0
    BY <1>0, <2>1 DEF OnItsWay
  <2>5. OneEachTime'
    BY <1>0, <2>1, <2>2, <2>3, <2>4 DEF Statuses, OneEachTime, Over
  <2>6. FailedOnlyAtEnd' /\ OneInProgress' /\ SomethingToDo' /\ LoopEnded'
    BY <2>1, <2>3 DEF FailedOnlyAtEnd, OneInProgress, SomethingToDo, LoopEnded, Finishing
  <2>. QED BY <2>5, <2>6 DEF Statuses
<1>. QED BY <1>1, <1>2

LEMMA StatusesResearcher == ASSUME Shape, Statuses, ResearcherNode PROVE Statuses'
<1> USE DEF graphVars, copyVars, poolVars
<1>0. IsGraphState(state) /\ gpc = "researcher" /\ pooled' = pooled /\ ~pooled
  BY DEF ResearcherNode, Go, Shape, TypeOK, Places
<1>1. NextPendingTasks(state) # {}
  BY <1>0, NextExists DEF Statuses, SomethingToDo
<1>2. PICK t \in NextPendingTasks(state) :
          gpc' = "research" /\ task' = t /\ state' = UpdateTask(state, t, "in_progress")
  BY <1>1 DEF ResearcherNode, Go
<1>3. t \in DOMAIN state.tasks /\ state.tasks[t].status = "pending"
  BY DEF NextPendingTasks, GetPendingTasks, Known
<1>4. /\ DOMAIN state'.tasks = DOMAIN state.tasks
      /\ state'.tasks[t].status = "in_progress"
      /\ \A u \in DOMAIN state.tasks : u # t => state'.tasks[u] = state.tasks[u]
      /\ state'.iterations = state.iterations
  BY <1>0, <1>2, <1>3, TaskIsUpdated DEF TaskStatus
<1>5. /\ Known(state, "completed")' = Known(state, "completed")
      /\ Known(state, "failed")' = Known(state, "failed")
      /\ Known(state, "in_progress")' = Known(state, "in_progress") \cup {t}
  BY <1>3, <1>4 DEF Known
<1>6. OnItsWay = 1 /\ OnItsWay' = 1
  BY <1>0, <1>2 DEF OnItsWay
<1>7. OneEachTime'
  BY <1>0, <1>2, <1>4, <1>5, <1>6 DEF Statuses, OneEachTime, Over
<1>8. FailedOnlyAtEnd' /\ OneInProgress' /\ SomethingToDo' /\ LoopEnded'
  BY <1>0, <1>2, <1>5
     DEF Statuses, FailedOnlyAtEnd, OneInProgress, SomethingToDo, LoopEnded, Finishing, Over
<1>. QED BY <1>7, <1>8 DEF Statuses

LEMMA StatusesResearch == ASSUME Shape, Statuses, ExecuteResearch PROVE Statuses'
<1> USE DEF graphVars, copyVars, poolVars
<1>0. /\ IsGraphState(state) /\ gpc = "research" /\ pooled' = pooled /\ ~pooled
      /\ task \in DOMAIN state.tasks /\ state.tasks[task].status = "in_progress"
  BY DEF ExecuteResearch, Fail, Go, Shape, TypeOK, Places, Working
<1>1. CASE Fail("research") /\ state' = UpdateTask(state, task, "failed")
  <2>1. gpc' \in Over /\ gpc' \notin Finishing /\ gpc' # "researcher"
    BY <1>1 DEF Fail, Go, Leave, Over, Finishing
  <2>2. /\ DOMAIN state'.tasks = DOMAIN state.tasks
        /\ state'.tasks[task].status = "failed"
        /\ \A u \in DOMAIN state.tasks : u # task => state'.tasks[u] = state.tasks[u]
    BY <1>0, <1>1, TaskIsUpdated DEF TaskStatus
  <2>3. Known(state, "in_progress")' = Known(state, "in_progress") \ {task}
    BY <1>0, <2>2 DEF Known
  <2>4. OneInProgress'
    BY <2>3 DEF Statuses, OneInProgress
  <2>. QED BY <2>1, <2>4
          DEF Statuses, FailedOnlyAtEnd, SomethingToDo, OneEachTime, LoopEnded
<1>2. CASE ~(Fail("research") /\ state' = UpdateTask(state, task, "failed"))
  <2>1. gpc' = "supervisor" /\ state' = AddResult(CompleteTask(state, task), task)
    BY <1>2 DEF ExecuteResearch, Go
  <2>2. /\ DOMAIN state'.tasks = DOMAIN state.tasks
        /\ state'.tasks[task].status = "completed"
        /\ \A u \in DOMAIN state.tasks : u # task => state'.tasks[u] = state.tasks[u]
        /\ state'.iterations = state.iterations
    BY <1>0, <2>1, FindingIsStored
  <2>3. /\ Known(state, "completed")' = Known(state, "completed") \cup {task}
        /\ task \notin Known(state, "completed")
        /\ Known(state, "failed")' = Known(state, "failed")
        /\ Known(state, "in_progress")' = Known(state, "in_progress") \ {task}
    BY <1>0, <2>2 DEF Known
  <2>4. IsFiniteSet(Known(state, "completed"))
    BY StateFields, GraphStateAssumption, FS_Subset DEF Known, Shape, TypeOK
  <2>5. Cardinality(Known(state, "completed")') = Cardinality(Known(state, "completed")) + 1
    BY <2>3, <2>4, FS_AddElement
  <2>6. OnItsWay = 1 /\ OnItsWay' = 0 /\ Cardinality(Known(state, "completed")) \in Nat
    BY <1>0, <2>1, <2>4, FS_CardinalityType DEF OnItsWay
  <2>7. OneEachTime'
    BY <1>0, <2>1, <2>2, <2>5, <2>6 DEF Statuses, OneEachTime, Over
  <2>8. FailedOnlyAtEnd' /\ OneInProgress' /\ SomethingToDo' /\ LoopEnded'
    BY <1>0, <2>1, <2>3
       DEF Statuses, FailedOnlyAtEnd, OneInProgress, SomethingToDo, LoopEnded, Finishing, Over
  <2>. QED BY <2>7, <2>8 DEF Statuses
<1>. QED BY <1>1, <1>2

\* What the workers and the retries do while the graph stands still.
LEMMA StatusesBeside ==
    ASSUME Shape, Statuses, pooled, UNCHANGED <<gpc, pooled, task>>,
           state'.iterations = state.iterations, DOMAIN state'.tasks = DOMAIN state.tasks,
           \A status : status # "completed" => Known(state, status)' \subseteq Known(state, status)
    PROVE  Statuses'
<1>1. gpc # "researcher"
  BY DEF Shape, Places
<1>2. FailedOnlyAtEnd' /\ OneInProgress' /\ SomethingToDo' /\ OneEachTime'
  BY <1>1 DEF Statuses, FailedOnlyAtEnd, OneInProgress, SomethingToDo, OneEachTime
<1>3. NothingLeft => NothingLeft'
  BY DEF NothingLeft
<1>4. LoopEnded'
  BY <1>3 DEF Statuses, LoopEnded, IterationsOver
<1>. QED BY <1>2, <1>4 DEF Statuses

LEMMA StatusesWorkers ==
    ASSUME Shape, Statuses, NEW w \in Worker, WorkerStep(w) PROVE Statuses'
<1>0. /\ pooled /\ IsGraphState(state)
      /\ wpc[w] \in {"executing", "adding"} <=> wtask[w] # NoTask
      /\ wtask[w] \in TaskID \cup {NoTask}
  BY DEF WorkerStep, Receive, WorkerFails, WorkerRecovers, WorkerCompletes, WorkerAddsResult,
         WorkerOffers, WorkerPanics, WorkerLeaves, Move, Shape, TypeOK, Alone, HeldTyped
<1>1. UNCHANGED <<gpc, pooled, task>>
  BY DEF WorkerStep, Receive, WorkerFails, WorkerRecovers, WorkerCompletes, WorkerAddsResult,
         WorkerOffers, WorkerPanics, WorkerLeaves, Crash, graphVars
<1>2. CASE WorkerCompletes(w)
  <2>1. wpc[w] = "executing" /\ state' = CompleteTask(state, wtask[w])
    BY <1>2 DEF WorkerCompletes, Move
  <2>2. PICK t \in DOMAIN state.tasks : t = wtask[w]
    BY <1>0, <2>1 DEF Shape, TasksPlanned, Idle
  <2>3. /\ DOMAIN state'.tasks = DOMAIN state.tasks
        /\ state'.tasks[t].status = "completed"
        /\ \A u \in DOMAIN state.tasks : u # t => state'.tasks[u] = state.tasks[u]
        /\ state'.iterations = state.iterations
    BY <1>0, <2>1, <2>2, TaskIsCompleted
  <2>4. \A status : status # "completed" => Known(state, status)' \subseteq Known(state, status)
    BY <2>3 DEF Known
  <2>. QED BY <1>0, <1>1, <2>3, <2>4, StatusesBeside
<1>3. CASE ~WorkerCompletes(w)
  <2>1. state'.tasks = state.tasks /\ state'.iterations = state.iterations
    <3>1. CASE WorkerAddsResult(w)
      <4>1. wtask[w] \in TaskID /\ state' = AddResult(state, wtask[w])
        BY <1>0, <3>1 DEF WorkerAddsResult, Move
      <4>. QED BY <1>0, <4>1, ResultIsAdded
    <3>2. CASE ~WorkerAddsResult(w)
      BY <1>3, <3>2 DEF WorkerStep, Receive, WorkerFails, WorkerRecovers, WorkerOffers,
                        WorkerPanics, WorkerLeaves, Crash
    <3>. QED BY <3>1, <3>2
  <2>. QED BY <1>0, <1>1, <2>1, KnownKept, StatusesBeside
<1>. QED BY <1>2, <1>3

LEMMA StatusesUnchanged ==
    ASSUME Statuses, UNCHANGED <<gpc, pooled, task, state>> PROVE Statuses'
BY DEF Statuses, FailedOnlyAtEnd, OneInProgress, SomethingToDo, OneEachTime, LoopEnded, OnItsWay,
       IterationsOver, NothingLeft

LEMMA StatusesStep == ASSUME Shape, Statuses, [Next]_vars PROVE Statuses'
<1>1. ASSUME NEW t \in TaskID, RetryStep(t) PROVE Statuses'
  BY <1>1, StatusesUnchanged
     DEF RetryStep, RetryWakes, RetrySends, RetryGivesUp, RetryPanics, Crash, graphVars
<1>2. CASE UNCHANGED vars
  BY <1>2, StatusesUnchanged DEF vars, graphVars
<1>. QED
  BY <1>1, <1>2, StatusesPlain, StatusesPlanning, StatusesResearcher, StatusesResearch,
     StatusesWorkers DEF Next, GraphStep, PlainStep

LEMMA StatusesInit == ASSUME Init PROVE Statuses
<1>1. /\ gpc = "start" /\ DOMAIN state.tasks = {} /\ state.iterations = 0
  BY StartState DEF Init
<1>2. \A status : Known(state, status) = {}
  BY <1>1 DEF Known
<1>3. Cardinality(Known(state, "completed")) = 0 /\ OnItsWay = 0
  BY <1>1, <1>2, FS_EmptySet DEF OnItsWay
<1>. QED
  BY <1>1, <1>2, <1>3
  DEF Statuses, FailedOnlyAtEnd, OneInProgress, SomethingToDo, OneEachTime, LoopEnded, Finishing

\* A task that the graph no longer waits for is completed.
LEMMA AllCompleted ==
    ASSUME Shape, Statuses, gpc = "extract", NEW t \in DOMAIN state.tasks,
           ~(state.iterations = MaxIterations /\ (pooled \/ Cardinality(TaskID) > MaxIterations))
    PROVE  state.tasks[t].status = "completed"
<1>0. /\ IsGraphState(state) /\ DOMAIN state.tasks \subseteq TaskID
      /\ state.iterations \in Nat /\ MaxIterations \in Nat /\ state.iterations <= MaxIterations
      /\ state.tasks[t].status \in TaskStatus
  BY StateFields, GraphStateAssumption DEF Shape, TypeOK, ResearchTask
<1>1. IterationsOver \/ NothingLeft
  BY DEF Statuses, LoopEnded, Finishing
<1>2. CASE NothingLeft
  BY <1>0, <1>2 DEF NothingLeft, Known, Statuses, FailedOnlyAtEnd, Over, TaskStatus
<1>3. CASE IterationsOver
  <2> DEFINE C == Known(state, "completed")
  <2>1. state.iterations = MaxIterations
    BY <1>0, <1>3 DEF IterationsOver
  <2>2. ~pooled /\ ~(Cardinality(TaskID) > MaxIterations)
    BY <2>1
  <2>3. C \in SUBSET TaskID /\ IsFiniteSet(TaskID)
    BY <1>0, GraphStateAssumption DEF Known
  <2>4. Cardinality(C) = MaxIterations
    <3>1. Cardinality(C) + OnItsWay = state.iterations /\ OnItsWay = 0
      BY <2>2 DEF Statuses, OneEachTime, Over, OnItsWay
    <3>2. Cardinality(C) \in Nat
      BY <2>3, FS_Subset, FS_CardinalityType
    <3> HIDE DEF C
    <3>. QED BY <2>1, <3>1, <3>2
  <2>5. Cardinality(TaskID) \in Nat /\ Cardinality(C) <= Cardinality(TaskID)
    BY <2>3, FS_Subset, FS_CardinalityType
  <2>6. Cardinality(TaskID) = Cardinality(C)
    <3> HIDE DEF C
    <3>. QED BY <1>0, <2>2, <2>4, <2>5
  <2>7. C = TaskID
    BY <2>3, <2>6, FS_Subset
  <2>. QED BY <1>0, <2>7 DEF Known
<1>. QED BY <1>1, <1>2, <1>3

\* The report of a run that did not use up its iterations misses no planned task,
\* beside a worker that has marked its task and not yet added the finding; without a
\* pool as many iterations as tasks are enough (researchLoop, Execute).
THEOREM ReportHasAll == Spec => ReportComplete
<1>1. Init => RecordsAgree /\ Statuses
  BY StatusesInit, StartState DEF Init, RecordsAgree
<1>2. Shape /\ Shape' /\ RecordsAgree /\ Statuses /\ [Next]_vars => RecordsAgree' /\ Statuses'
  BY RecordsStep, StatusesStep
<1>3. ASSUME Shape, RecordsAgree, Statuses, ExtractReport, NEW t \in DOMAIN state.tasks
      PROVE  \/ InReport(t)'
             \/ state.iterations = MaxIterations /\ (pooled \/ Cardinality(TaskID) > MaxIterations)
             \/ Adding(t) # {}
  <2> SUFFICES ASSUME ~(state.iterations = MaxIterations
                          /\ (pooled \/ Cardinality(TaskID) > MaxIterations)),
                      Adding(t) = {}
               PROVE  InReport(t)'
    OBVIOUS
  <2>1. gpc = "extract" /\ IsGraphState(state)
    BY <1>3 DEF ExtractReport, Go, Shape, TypeOK
  <2>2. state.tasks[t].status = "completed"
    BY <1>3, <2>1, AllCompleted
  <2>3. Cardinality(Adding(t)) = 0
    BY FS_EmptySet
  <2>4. ResultsFor(state, t) \in Nat /\ ResultsFor(state, t) > 0
    <3>1. ResultsFor(state, t) \in Nat
      BY <2>1, ResultsForType
    <3>2. /\ state.tasks[t].results = ResultsFor(state, t) + Cardinality(Adding(t))
          /\ state.tasks[t].results > 0
      BY <1>3, <2>2 DEF RecordsAgree
    <3>. QED BY <2>3, <3>1, <3>2
  <2>5. PICK i \in 1..Len(state.results) : state.results[i] = t
    <3> DEFINE Found == {i \in 1..Len(state.results) : state.results[i] = t}
    <3>1. Found # {}
      <4>1. Cardinality(Found) # 0
        BY <2>4 DEF ResultsFor
      <4> HIDE DEF Found
      <4>. QED BY <4>1, FS_EmptySet
    <3>. QED BY <3>1
  <2>6. /\ state.results \in Seq(TaskID)
        /\ report' = state.results \/ report' = Append(state.results, Torn)
    BY <1>3, <2>1, StateFields DEF ExtractReport
  <2>7. i \in 1..Len(report') /\ report'[i] = t
    <3>1. CASE report' = state.results
      BY <2>5, <3>1
    <3>2. CASE report' = Append(state.results, Torn)
      <4>1. /\ Len(state.results) \in Nat /\ state.results \in Seq(TaskID \cup {Torn})
            /\ Len(report') = Len(state.results) + 1 /\ report'[i] = state.results[i]
        BY <2>5, <2>6, <3>2, LenProperties, AppendProperties, SeqDef
      <4>. QED BY <2>5, <4>1
    <3>. QED BY <2>6, <3>1, <3>2
  <2>. QED BY <2>7 DEF InReport
<1>4. Shape /\ RecordsAgree /\ Statuses /\ [Next]_vars =>
        [ExtractReport =>
          \A t \in DOMAIN state.tasks :
              \/ InReport(t)'
              \/ state.iterations = MaxIterations /\ (pooled \/ Cardinality(TaskID) > MaxIterations)
              \/ Adding(t) # {}]_vars
  BY <1>3
<1>. QED BY <1>1, <1>2, <1>4, ShapeHolds, PTL DEF Spec, ReportComplete
=============================================================================
