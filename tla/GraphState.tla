----------------------------- MODULE GraphState -----------------------------
(***************************************************************************)
(* The GraphState of src/pkg/state/state.go as a value and the functions   *)
(* its methods compute on it.  Every method runs under s.mu, so a          *)
(* component that calls one takes one step.  Messages, timestamps and      *)
(* metadata are left out: nothing decides by them.                         *)
(***************************************************************************)
EXTENDS Integers, Sequences, FiniteSets

CONSTANTS
    TaskID,
    Priority,         \* the priority each task is planned with
    MaxIterations     \* Config.Research.MaxIterations, copied into the state

ASSUME GraphStateAssumption ==
    /\ IsFiniteSet(TaskID)
    /\ Priority \in [TaskID -> Int]
    /\ MaxIterations \in Nat

Phase == {"start", "clarification", "planning", "research", "compression", "reporting", "complete"}

TaskStatus == {"pending", "in_progress", "completed", "failed"}

ResearchTask == [status : TaskStatus, results : Nat]

\* tasks maps the IDs of the known tasks; results lists the task of each result.
NewGraphState ==
    [phase |-> "clarification", iterations |-> 0, tasks |-> <<>>, results |-> <<>>]

GraphStates(known) ==
    [phase : Phase, iterations : Nat, tasks : [known -> ResearchTask], results : Seq(TaskID)]

IsGraphState(s) == \E known \in SUBSET TaskID : s \in GraphStates(known)

NewTask == [status |-> "pending", results |-> 0]

AddTask(s, t) ==
    [s EXCEPT !.tasks = [u \in DOMAIN s.tasks \cup {t} |-> IF u = t THEN NewTask ELSE s.tasks[u]]]

\* UpdateTask with a function that sets the status; an unknown task is created first.
UpdateTask(s, t, status) ==
    LET known == IF t \in DOMAIN s.tasks THEN s ELSE AddTask(s, t) IN
    [known EXCEPT !.tasks[t].status = status]

\* Mutant of CompleteTask: the result is not appended to the task's own.
CompleteWithoutResult(s, t) == UpdateTask(s, t, "completed")

\* UpdateTask as the workers use it: the status and the task's own list of results.
CompleteTask(s, t) == [UpdateTask(s, t, "completed") EXCEPT !.tasks[t].results = @ + 1]

\* Mutant of AddResult: the result is appended twice.
AddResultTwice(s, t) == [s EXCEPT !.results = @ \o <<t, t>>]

AddResult(s, t) == [s EXCEPT !.results = Append(@, t)]

SetPhase(s, phase) == [s EXCEPT !.phase = phase]

IncrementIteration(s) == [s EXCEPT !.iterations = @ + 1]

Known(s, status)   == {t \in DOMAIN s.tasks : s.tasks[t].status = status}
GetPendingTasks(s) == Known(s, "pending")

\* Mutant of NextPendingTasks: the search starts from priority one.
NextAboveOne(s) == {t \in GetPendingTasks(s) : Priority[t] > 1
                       /\ \A u \in GetPendingTasks(s) : Priority[u] <= Priority[t]}

\* GetNextPendingTask: a pending task of the highest priority, if that is above -1.
NextPendingTasks(s) == {t \in GetPendingTasks(s) : Priority[t] > -1
                       /\ \A u \in GetPendingTasks(s) : Priority[u] <= Priority[t]}

ResultsFor(s, t) == Cardinality({i \in 1..Len(s.results) : s.results[i] = t})
=============================================================================
