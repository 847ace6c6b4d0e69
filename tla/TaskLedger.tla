----------------------------- MODULE TaskLedger -----------------------------
(***************************************************************************)
(* What a task pool promises about the tasks it accepts, whatever its      *)
(* channels, counters and goroutines do: tasks are begun in the order they *)
(* were accepted, each by one worker, by no more workers than there are;   *)
(* a task that has been done is never accepted or begun again; a task      *)
(* leaves the pool only by having been run.                                *)
(***************************************************************************)
EXTENDS Naturals, Sequences, FiniteSets

CONSTANTS
    Job,          \* the tasks
    QueueSize,    \* how many tasks may wait
    MaxRunning    \* how many may run at a time

VARIABLES
    waiting,      \* the tasks accepted and not begun, in the order of acceptance
    running,      \* the tasks begun and not ended
    finished      \* the tasks that are over for good

ledger == <<waiting, running, finished>>

Waits(j) == \E i \in 1..Len(waiting) : waiting[i] = j

Init == waiting = <<>> /\ running = {} /\ finished = {}

Accept(j) ==
    /\ ~Waits(j) /\ j \notin running \cup finished
    /\ Len(waiting) < QueueSize
    /\ waiting' = Append(waiting, j)
    /\ UNCHANGED <<running, finished>>

Begin ==
    /\ waiting # <<>> /\ Cardinality(running) < MaxRunning
    /\ running' = running \cup {Head(waiting)}
    /\ waiting' = Tail(waiting)
    /\ UNCHANGED finished

\* The task is over, or has failed and may be accepted once more.
End(j) ==
    /\ j \in running
    /\ running' = running \ {j}
    /\ finished' \in {finished, finished \cup {j}}
    /\ UNCHANGED waiting

Next == Begin \/ \E j \in Job : Accept(j) \/ End(j)

Spec == Init /\ [][Next]_ledger
=============================================================================
