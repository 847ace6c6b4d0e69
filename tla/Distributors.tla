---------------------------- MODULE Distributors ----------------------------
(***************************************************************************)
(* The task prioritizer and the three task distributors of                 *)
(* src/pkg/workflow/supervisor.go as functions of their inputs.  A         *)
(* distributor is a value, its Distribute an operator that returns the set *)
(* of outcomes the code can produce: who gets each task of the batch, and  *)
(* the distributor it leaves behind.  sort.Slice is not stable, so tasks   *)
(* or pairs that compare equal come in any order.                          *)
(*                                                                         *)
(* Costs and priorities are the code's floats scaled to integers.          *)
(***************************************************************************)
EXTENDS Integers, Sequences, FiniteSets, SequencesExt

CONSTANTS
    Task,        \* task IDs
    Worker,      \* worker IDs
    NoWorker,    \* a task the distributor left out
    Priority,    \* task.Priority of each task
    Child,       \* the tasks that have a ParentID
    Capacity,    \* the literal 3 of "Max 3 tasks per worker"
    IndexMax     \* the largest value of nextWorkerIndex, 2^31 - 1

ASSUME DistributorAssumption ==
    /\ IsFiniteSet(Task) /\ IsFiniteSet(Worker) /\ NoWorker \notin Worker
    /\ Priority \in [Task -> Int] /\ Child \subseteq Task
    /\ {Capacity, IndexMax} \subseteq Nat \ {0}

Strategy == {"load-balanced", "round-robin", "cost-based"}

\* workerLoads and workerCosts have an entry for a worker once they have met it; a
\* worker without one counts with load 0 and cost 1.0.
Distributor ==
    [strategy : Strategy, loads : [Worker -> Nat], index : Int, costs : [Worker -> Nat]]

NewDistributor(strategy) ==
    [strategy |-> strategy, loads |-> [w \in Worker |-> 0], index |-> 0,
     costs |-> [w \in Worker |-> 2]]

Unassigned == [t \in Task |-> NoWorker]

-----------------------------------------------------------------------------
(* Prioritize: the most important task first.  old says which tasks were   *)
(* created more than five minutes ago.                                     *)

CalculatePriority(t, old) ==
    (CASE Priority[t] <= 1 -> 40
       [] Priority[t] \in 2..3 -> 20
       [] Priority[t] \in 4..5 -> 15
       [] OTHER -> 10)
    * (IF t \in Child THEN 8 ELSE 10)
    * (IF t \in old THEN 12 ELSE 10)

Prioritized(batch) ==
    {order \in SetToSeqs(batch) :
        \E old \in SUBSET batch : \A i, k \in DOMAIN order :
            i < k => CalculatePriority(order[i], old) >= CalculatePriority(order[k], old)}

-----------------------------------------------------------------------------
(* LoadBalancedDistributor: loads only ever grow, nobody takes them down.  *)

\* The first of the least loaded workers.
LeastLoaded(workers, loads) ==
    LET Beats(i, k) == loads[workers[i]] < loads[workers[k]]
                       \/ (loads[workers[i]] = loads[workers[k]] /\ i <= k)
    IN  workers[CHOOSE i \in DOMAIN workers : \A k \in DOMAIN workers : Beats(i, k)]

\* Mutant of LoadBalanced: the least loaded worker is looked up once per batch.
LoadBalancedOnce(d, order, workers) ==
    LET w == LeastLoaded(workers, d.loads) IN
    {[to   |-> [t \in Task |-> IF t \in ToSet(order) THEN w ELSE NoWorker],
      dist |-> [d EXCEPT !.loads[w] = @ + Len(order)]]}

LoadBalanced(d, order, workers) ==
    LET Give(acc, t) ==
            LET w == LeastLoaded(workers, acc.dist.loads) IN
            [to |-> [acc.to EXCEPT ![t] = w], dist |-> [acc.dist EXCEPT !.loads[w] = @ + 1]]
    IN  {FoldLeft(Give, [to |-> Unassigned, dist |-> d], order)}

-----------------------------------------------------------------------------
(* RoundRobinDistributor: an int32 that wraps.  The first worker to get a  *)
(* task is the second of the list.  Go's remainder has the sign of the     *)
(* dividend, so a wrapped index may be out of the slice's range: such a    *)
(* call panics and has no outcome.                                         *)

NextIndex(index) == IF index = IndexMax THEN -IndexMax - 1 ELSE index + 1

GoRemainder(a, n) == IF a >= 0 THEN a % n ELSE -((-a) % n)

RoundRobin(d, order, workers) ==
    LET Give(acc, t) ==
            LET next == NextIndex(acc.dist.index)
                k    == GoRemainder(next, Len(workers)) + 1
            IN  [to   |-> [acc.to EXCEPT ![t] = IF k \in DOMAIN workers THEN workers[k]
                                                               ELSE NoWorker],
                 dist |-> [acc.dist EXCEPT !.index = next]]
        last == FoldLeft(Give, [to |-> Unassigned, dist |-> d], order)
    IN  {r \in {last} : \A t \in ToSet(order) : r.to[t] # NoWorker}

-----------------------------------------------------------------------------
(* CostBasedDistributor: the cheapest pair first, at most Capacity tasks   *)
(* to a worker in one call; what does not fit is not assigned.             *)

\* In halves: 1.0 is 2.
EstimateTaskCost(t) ==
    LET base == IF Priority[t] <= 2 THEN 6 ELSE IF Priority[t] <= 5 THEN 4 ELSE 2 IN
    IF t \in Child THEN (base * 3) \div 2 ELSE base

Given(to, w) == Cardinality({t \in Task : to[t] = w})

\* Mutant of PairFits: a worker takes one task more than its capacity.
PairFitsOnceMore(to, pair) == to[pair.task] = NoWorker /\ Given(to, pair.worker) <= Capacity

PairFits(to, pair) == to[pair.task] = NoWorker /\ Given(to, pair.worker) < Capacity

\* The walk over the sorted pairs takes the cheapest pair that still fits, again and
\* again: a pair that does not fit once never fits later.
CostBased(d, order, workers) ==
    LET pairs      == [task : ToSet(order), worker : ToSet(workers)]
        Cost(pair) == EstimateTaskCost(pair.task) + d.costs[pair.worker]
        Fitting(acc)  == {pair \in pairs : PairFits(acc.to, pair)}
        Cheapest(acc) == {p \in Fitting(acc) : \A q \in Fitting(acc) : Cost(p) <= Cost(q)}
        Give(acc) ==
            IF Fitting(acc) = {} THEN {acc}
            ELSE {[to   |-> [acc.to EXCEPT ![p.task] = p.worker],
                   dist |-> [acc.dist EXCEPT !.costs[p.worker] = Cost(p)]] : p \in Cheapest(acc)}
    IN  FoldLeft(LAMBDA accs, t : UNION {Give(acc) : acc \in accs},
                 {[to |-> Unassigned, dist |-> d]}, order)

-----------------------------------------------------------------------------
Distribute(d, batch, workers) ==
    UNION {CASE d.strategy = "load-balanced" -> LoadBalanced(d, order, workers)
             [] d.strategy = "round-robin"   -> RoundRobin(d, order, workers)
             [] d.strategy = "cost-based"    -> CostBased(d, order, workers)
           : order \in Prioritized(batch)}
=============================================================================
