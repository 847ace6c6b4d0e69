-------------------------- MODULE GraphStateProofs --------------------------
(***************************************************************************)
(* What the methods of GraphState do to its fields, for the proofs about   *)
(* the components that call them.                                          *)
(***************************************************************************)
EXTENDS GraphState, TLAPS, FiniteSetTheorems, SequenceTheorems

LEMMA StateFields ==
    ASSUME NEW s, IsGraphState(s)
    PROVE  /\ s \in GraphStates(DOMAIN s.tasks)
           /\ DOMAIN s.tasks \subseteq TaskID
           /\ s.iterations \in Nat /\ s.results \in Seq(TaskID)
           /\ \A t \in DOMAIN s.tasks : s.tasks[t] \in ResearchTask
BY DEF IsGraphState, GraphStates

LEMMA StartState ==
    /\ IsGraphState(NewGraphState)
    /\ NewGraphState.iterations = 0 /\ NewGraphState.results = <<>>
    /\ DOMAIN NewGraphState.tasks = {}
<1>1. <<>> \in [{} -> ResearchTask] /\ <<>> \in Seq(TaskID)
  BY EmptySeq
<1>2. NewGraphState \in GraphStates({})
  BY <1>1 DEF NewGraphState, GraphStates, Phase
<1>. QED BY <1>2 DEF IsGraphState, NewGraphState

LEMMA PhaseIsSet ==
    ASSUME NEW s, IsGraphState(s), NEW phase \in Phase
    PROVE  LET r == SetPhase(s, phase) IN
           /\ IsGraphState(r)
           /\ r.tasks = s.tasks /\ r.results = s.results /\ r.iterations = s.iterations
<1>1. SetPhase(s, phase) \in GraphStates(DOMAIN s.tasks)
  BY StateFields DEF SetPhase, GraphStates
<1>. QED BY <1>1, StateFields DEF SetPhase, GraphStates, IsGraphState

LEMMA IterationIsCounted ==
    ASSUME NEW s, IsGraphState(s)
    PROVE  LET r == IncrementIteration(s) IN
           /\ IsGraphState(r)
           /\ r.tasks = s.tasks /\ r.results = s.results /\ r.iterations = s.iterations + 1
<1>1. s.iterations + 1 \in Nat
  BY StateFields
<1>2. IncrementIteration(s) \in GraphStates(DOMAIN s.tasks)
  BY <1>1, StateFields DEF IncrementIteration, GraphStates
<1>. QED BY <1>2, StateFields DEF IncrementIteration, GraphStates, IsGraphState

LEMMA TaskIsUpdated ==
    ASSUME NEW s, IsGraphState(s), NEW t \in DOMAIN s.tasks, NEW status \in TaskStatus
    PROVE  LET r == UpdateTask(s, t, status) IN
           /\ IsGraphState(r)
           /\ DOMAIN r.tasks = DOMAIN s.tasks
           /\ r.tasks[t].status = status /\ r.tasks[t].results = s.tasks[t].results
           /\ \A u \in DOMAIN s.tasks : u # t => r.tasks[u] = s.tasks[u]
           /\ r.results = s.results /\ r.iterations = s.iterations
<1> DEFINE task == [s.tasks[t] EXCEPT !.status = status]
           tasks == [s.tasks EXCEPT ![t] = task]
<1>1. task \in ResearchTask /\ task.status = status /\ task.results = s.tasks[t].results
  BY StateFields DEF ResearchTask
<1>2. UpdateTask(s, t, status) = [s EXCEPT !.tasks = tasks]
  BY DEF UpdateTask
<1> HIDE DEF task
<1>3. /\ tasks \in [DOMAIN s.tasks -> ResearchTask]
      /\ tasks[t] = task
      /\ \A u \in DOMAIN s.tasks : u # t => tasks[u] = s.tasks[u]
  BY <1>1, StateFields DEF GraphStates
<1> HIDE DEF tasks
<1>4. UpdateTask(s, t, status) \in GraphStates(DOMAIN s.tasks)
  BY <1>2, <1>3, StateFields DEF GraphStates
<1>5. /\ UpdateTask(s, t, status).tasks = tasks
      /\ UpdateTask(s, t, status).results = s.results
      /\ UpdateTask(s, t, status).iterations = s.iterations
  BY <1>2, StateFields DEF GraphStates
<1>. QED BY <1>1, <1>3, <1>4, <1>5, StateFields DEF IsGraphState

LEMMA TaskIsCompleted ==
    ASSUME NEW s, IsGraphState(s), NEW t \in DOMAIN s.tasks
    PROVE  LET r == CompleteTask(s, t) IN
           /\ IsGraphState(r)
           /\ DOMAIN r.tasks = DOMAIN s.tasks
           /\ r.tasks[t].status = "completed" /\ r.tasks[t].results = s.tasks[t].results + 1
           /\ \A u \in DOMAIN s.tasks : u # t => r.tasks[u] = s.tasks[u]
           /\ r.results = s.results /\ r.iterations = s.iterations
<1> DEFINE q == UpdateTask(s, t, "completed")
           task == [q.tasks[t] EXCEPT !.results = q.tasks[t].results + 1]
           tasks == [q.tasks EXCEPT ![t] = task]
<1>0. "completed" \in TaskStatus
  BY DEF TaskStatus
<1>1. /\ IsGraphState(q) /\ DOMAIN q.tasks = DOMAIN s.tasks
      /\ q.tasks[t].status = "completed" /\ q.tasks[t].results = s.tasks[t].results
      /\ \A u \in DOMAIN s.tasks : u # t => q.tasks[u] = s.tasks[u]
      /\ q.results = s.results /\ q.iterations = s.iterations
  BY <1>0, TaskIsUpdated
<1>2. CompleteTask(s, t) = [q EXCEPT !.tasks = tasks]
  BY DEF CompleteTask
<1> HIDE DEF q
<1>3. q \in GraphStates(DOMAIN s.tasks)
  BY <1>1, StateFields
<1>4. /\ task \in ResearchTask /\ task.status = "completed"
      /\ task.results = s.tasks[t].results + 1
  BY <1>1, <1>3 DEF ResearchTask, GraphStates
<1> HIDE DEF task
<1>5. /\ tasks \in [DOMAIN s.tasks -> ResearchTask]
      /\ tasks[t] = task
      /\ \A u \in DOMAIN s.tasks : u # t => tasks[u] = s.tasks[u]
  BY <1>1, <1>3, <1>4 DEF GraphStates
<1> HIDE DEF tasks
<1>6. CompleteTask(s, t) \in GraphStates(DOMAIN s.tasks)
  BY <1>2, <1>3, <1>5 DEF GraphStates
<1>7. /\ CompleteTask(s, t).tasks = tasks
      /\ CompleteTask(s, t).results = s.results
      /\ CompleteTask(s, t).iterations = s.iterations
  BY <1>1, <1>2, <1>3 DEF GraphStates
<1>. QED BY <1>4, <1>5, <1>6, <1>7, StateFields DEF IsGraphState

LEMMA ResultIsAdded ==
    ASSUME NEW s, IsGraphState(s), NEW t \in TaskID
    PROVE  LET r == AddResult(s, t) IN
           /\ IsGraphState(r)
           /\ r.tasks = s.tasks /\ r.results = Append(s.results, t) /\ r.iterations = s.iterations
<1>1. Append(s.results, t) \in Seq(TaskID)
  BY StateFields, AppendProperties
<1>2. AddResult(s, t) \in GraphStates(DOMAIN s.tasks)
  BY <1>1, StateFields DEF AddResult, GraphStates
<1>. QED BY <1>2, StateFields DEF AddResult, GraphStates, IsGraphState

-----------------------------------------------------------------------------
(* Counting the results of a task.                                         *)

LEMMA ResultsForType ==
    ASSUME NEW s, IsGraphState(s), NEW t
    PROVE  /\ ResultsFor(s, t) \in Nat
           /\ IsFiniteSet({i \in 1..Len(s.results) : s.results[i] = t})
<1>1. Len(s.results) \in Nat
  BY StateFields, LenProperties
<1>2. IsFiniteSet(1..Len(s.results))
  BY <1>1, FS_Interval
<1>3. IsFiniteSet({i \in 1..Len(s.results) : s.results[i] = t})
  BY <1>2, FS_Subset
<1>. QED BY <1>3, FS_CardinalityType DEF ResultsFor

LEMMA NoResults ==
    ASSUME NEW s, s.results = <<>>, NEW t
    PROVE  ResultsFor(s, t) = 0
<1>1. {i \in 1..Len(s.results) : s.results[i] = t} = {}
  OBVIOUS
<1>. QED BY <1>1, FS_EmptySet DEF ResultsFor

LEMMA SameResults ==
    ASSUME NEW s, NEW r, r.results = s.results, NEW t
    PROVE  ResultsFor(r, t) = ResultsFor(s, t)
BY DEF ResultsFor

LEMMA OneMoreResult ==
    ASSUME NEW s, IsGraphState(s), NEW t \in TaskID, NEW r, r.results = Append(s.results, t),
           NEW u
    PROVE  ResultsFor(r, u) = ResultsFor(s, u) + (IF u = t THEN 1 ELSE 0)
<1> DEFINE n == Len(s.results)
           Of(q, k) == {i \in 1..k : q[i] = u}
<1>1. /\ n \in Nat /\ Len(r.results) = n + 1 /\ r.results[n + 1] = t
      /\ \A i \in 1..n : r.results[i] = s.results[i]
  BY StateFields, LenProperties, AppendProperties
<1>2. IsFiniteSet(Of(s.results, n)) /\ ResultsFor(s, u) = Cardinality(Of(s.results, n))
  BY ResultsForType DEF ResultsFor
<1>3. ResultsFor(r, u) = Cardinality(Of(r.results, n + 1))
  BY <1>1 DEF ResultsFor
<1>4. CASE u = t
  <2>1. Of(r.results, n + 1) = Of(s.results, n) \cup {n + 1} /\ n + 1 \notin Of(s.results, n)
    BY <1>1, <1>4
  <2>. QED BY <1>2, <1>3, <1>4, <2>1, FS_AddElement
<1>5. CASE u # t
  <2>1. Of(r.results, n + 1) = Of(s.results, n)
    BY <1>1, <1>5
  <2>2. ResultsFor(s, u) \in Nat
    BY ResultsForType
  <2>3. ResultsFor(r, u) = ResultsFor(s, u)
    BY <1>2, <1>3, <2>1
  <2>. QED BY <1>5, <2>2, <2>3
<1>. QED BY <1>4, <1>5
=============================================================================
