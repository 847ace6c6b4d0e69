------------------------- MODULE WorkerHealthProofs -------------------------
(***************************************************************************)
(* Proofs about WorkerHealth for every pair of thresholds: the breaker     *)
(* stays coherent whoever asks it in between, no task runs while it is     *)
(* open, the two failure counters agree, and what it takes to close it.    *)
(***************************************************************************)
EXTENDS WorkerHealth, TLAPS

LEMMA Thresholds ==
    /\ FailureThreshold \in Nat /\ FailureThreshold > 0
    /\ SuccessThreshold \in Nat /\ SuccessThreshold > 0
    /\ MaxFails \in Nat /\ FailCap \in Nat /\ FailCap > 0
    /\ MaxAttempts \in Nat /\ MaxAttempts > 0
BY BreakerAssumption, HealthAssumption

-----------------------------------------------------------------------------
(* The breaker by itself.                                                  *)

\* BreakerCoherent as a predicate of a breaker.
Coherent(cb) ==
    /\ cb \in Breaker
    /\ cb.state = "closed" <=> cb.failures < FailureThreshold
    /\ cb.successCount < SuccessThreshold
    /\ cb.successCount > 0 => cb.state = "half-open"

\* Asking the breaker keeps it coherent and never opens or closes it.
LEMMA ProbedBreaker ==
    ASSUME NEW cb, Coherent(cb)
    PROVE  /\ Coherent(Probed(cb))
           /\ Probed(cb).failures = cb.failures
           /\ Probed(cb).state = "closed" <=> cb.state = "closed"
           /\ Probed(cb).state = "open" => cb.state = "open"
           /\ Permits(cb) => Probed(cb).state # "open"
BY Thresholds DEF Coherent, Probed, Permits, Breaker, BreakerState

\* A success never opens the breaker and closes it only as the last trial needed.
LEMMA SuccessBreaker ==
    ASSUME NEW cb, Coherent(cb)
    PROVE  /\ Coherent(RecordSuccess(cb))
           /\ RecordSuccess(cb).failures <= cb.failures
           /\ RecordSuccess(cb).state = "closed" /\ cb.state # "open" =>
                 RecordSuccess(cb).failures = 0
           /\ RecordSuccess(cb).state = "closed" /\ cb.state # "closed" =>
                 cb.state = "half-open" /\ cb.successCount = SuccessThreshold - 1
           /\ cb.state # "open" => RecordSuccess(cb).state # "open"
<1> USE Thresholds DEF Coherent, Breaker, BreakerState
<1>1. CASE cb.state = "closed"
  BY <1>1 DEF RecordSuccess
<1>2. CASE cb.state = "half-open" /\ cb.successCount + 1 >= SuccessThreshold
  <2> DEFINE shut == [cb EXCEPT !.state = "closed"]
             clean == [shut EXCEPT !.failures = 0]
             done == [clean EXCEPT !.successCount = 0]
  <2>1. /\ shut.state = "closed" /\ shut.failures = cb.failures
        /\ shut.successCount = cb.successCount /\ shut \in Breaker
    OBVIOUS
  <2>2. clean.state = "closed" /\ clean.failures = 0 /\ clean \in Breaker
    <3> HIDE DEF shut
    <3>. QED BY <2>1
  <2>3. /\ done.state = "closed" /\ done.failures = 0 /\ done.successCount = 0
        /\ done \in Breaker
    <3> HIDE DEF clean
    <3>. QED BY <2>2
  <2>4. RecordSuccess(cb) = done
    BY <1>2 DEF RecordSuccess
  <2>5. cb.successCount = SuccessThreshold - 1
    BY <1>2
  <2> HIDE DEF done
  <2>. QED BY <1>2, <2>3, <2>4, <2>5
<1>3. CASE cb.state = "half-open" /\ ~(cb.successCount + 1 >= SuccessThreshold)
  <2> DEFINE counted == [cb EXCEPT !.successCount = cb.successCount + 1]
  <2>1. /\ counted \in Breaker /\ counted.state = cb.state
        /\ counted.failures = cb.failures /\ counted.successCount = cb.successCount + 1
    OBVIOUS
  <2>2. RecordSuccess(cb) = counted
    BY <1>3 DEF RecordSuccess
  <2> HIDE DEF counted
  <2>. QED BY <1>3, <2>1, <2>2
<1>4. CASE cb.state = "open"
  BY <1>4 DEF RecordSuccess
<1>. QED BY <1>1, <1>2, <1>3, <1>4

\* A failure adds one to the failures on record and never closes the breaker.
LEMMA FailureBreaker ==
    ASSUME NEW cb, Coherent(cb)
    PROVE  /\ Coherent(RecordFailure(cb))
           /\ RecordFailure(cb).failures = cb.failures + 1
           /\ RecordFailure(cb).state = "closed" => cb.state = "closed"
<1> USE Thresholds DEF Coherent, Breaker, BreakerState
<1> DEFINE counted == [cb EXCEPT !.failures = cb.failures + 1]
           failed == [counted EXCEPT !.cooled = FALSE]
           opened == [failed EXCEPT !.state = "open"]
           reset == [opened EXCEPT !.successCount = 0]
<1>1. /\ counted \in Breaker /\ counted.state = cb.state
      /\ counted.failures = cb.failures + 1 /\ counted.successCount = cb.successCount
  OBVIOUS
<1>2. /\ failed \in Breaker /\ failed.state = cb.state
      /\ failed.failures = cb.failures + 1 /\ failed.successCount = cb.successCount
  <2> HIDE DEF counted
  <2>. QED BY <1>1
<1>3. /\ opened \in Breaker /\ opened.state = "open"
      /\ opened.failures = cb.failures + 1 /\ opened.successCount = cb.successCount
  <2> HIDE DEF failed
  <2>. QED BY <1>2
<1>4. /\ reset \in Breaker /\ reset.state = "open"
      /\ reset.failures = cb.failures + 1 /\ reset.successCount = 0
  <2> HIDE DEF opened
  <2>. QED BY <1>3
<1>5. RecordFailure(cb) = IF cb.state = "half-open" THEN reset
                          ELSE IF failed.failures >= FailureThreshold THEN opened
                                                                      ELSE failed
  BY DEF RecordFailure
<1> HIDE DEF counted, failed, opened, reset
<1>6. CASE cb.state = "half-open"
  BY <1>4, <1>5, <1>6
<1>7. CASE cb.state # "half-open"
  BY <1>2, <1>3, <1>5, <1>7
<1>. QED BY <1>6, <1>7

-----------------------------------------------------------------------------
(* The worker's step by step invariant.                                    *)

\* A task runs only on a breaker that is not open and has room below the bound, and
\* nobody but the running task itself can open it.
RunsPermitted ==
    /\ breaker.failures <= FailCap
    /\ pc \in {"executing", "succeeding", "delivering"} =>
          breaker.state # "open" /\ breaker.failures < FailCap

\* CountersAgree at every place of ProcessTask: between the two halves of
\* RecordFailure and RecordSuccess the breaker is one update ahead.
CountersMatch ==
    /\ pc \in {"idle", "executing"} =>
          /\ consecutiveFails <= breaker.failures
          /\ breaker.state = "closed" => consecutiveFails = breaker.failures
    /\ pc = "failing" =>
          /\ consecutiveFails + 1 <= breaker.failures
          /\ breaker.state = "closed" => consecutiveFails + 1 = breaker.failures
    /\ pc = "succeeding" => (breaker.state = "closed" => breaker.failures = 0)
    /\ pc = "delivering" =>
          /\ consecutiveFails = 0
          /\ breaker.state = "closed" => breaker.failures = 0

HealthInv == TypeOK /\ Coherent(breaker) /\ RunsPermitted /\ CountersMatch

\* What any step may do to the breaker: ask it, let its open period end, or nothing.
Untouched(old, new) ==
    /\ Coherent(new)
    /\ new.failures = old.failures
    /\ new.state = "closed" <=> old.state = "closed"
    /\ new.state = "open" => old.state = "open"

LEMMA HealthInit == Init => HealthInv
<1> SUFFICES ASSUME Init PROVE HealthInv
  OBVIOUS
<1> USE Thresholds DEF Init, NewBreaker
<1>1. breaker \in Breaker /\ breaker.failures = 0 /\ Coherent(breaker)
  BY DEF Coherent, Breaker, BreakerState
<1>2. TypeOK
  <2>1. isHealthy \in BOOLEAN /\ stale \in BOOLEAN /\ memoryHigh \in BOOLEAN
    OBVIOUS
  <2>2. breaker.failures <= FailCap + 1
    BY <1>1
  <2>3. consecutiveFails \in Nat /\ pc \in Place /\ attempt \in 0..(MaxAttempts - 1)
    BY DEF Place
  <2>. QED BY <1>1, <2>1, <2>2, <2>3 DEF TypeOK
<1>3. RunsPermitted /\ CountersMatch
  BY DEF RunsPermitted, CountersMatch
<1>. QED BY <1>1, <1>2, <1>3 DEF HealthInv

\* A step that only asks the breaker and starts no task keeps the invariant.
LEMMA AskKeeps ==
    ASSUME HealthInv, Untouched(breaker, breaker'),
           UNCHANGED <<consecutiveFails, pc, attempt>>,
           isHealthy' \in BOOLEAN, stale' \in BOOLEAN, memoryHigh' \in BOOLEAN
    PROVE  HealthInv'
<1> USE Thresholds DEF HealthInv, Untouched
<1>1. TypeOK'
  BY DEF TypeOK, Coherent
<1>2. RunsPermitted'
  BY DEF RunsPermitted
<1>3. CountersMatch'
  BY DEF CountersMatch
<1>. QED BY <1>1, <1>2, <1>3

LEMMA ProbeUntouched ==
    ASSUME HealthInv
    PROVE  /\ Untouched(breaker, Probed(breaker))
           /\ Permits(breaker) => Probed(breaker).state # "open"
BY ProbedBreaker DEF HealthInv, Untouched

\* The breaker's half of a failure, wherever in ProcessTask it happens.
LEMMA FailureKeeps ==
    ASSUME HealthInv, pc \in {"executing", "delivering"}, BreakerFailure
    PROVE  HealthInv'
<1> USE Thresholds DEF HealthInv, BreakerFailure
<1>1. /\ Coherent(breaker')
      /\ breaker'.failures = breaker.failures + 1
      /\ breaker'.state = "closed" => breaker.state = "closed"
  BY FailureBreaker
<1>2. breaker.failures \in Nat /\ consecutiveFails \in Nat
  BY DEF Coherent, Breaker, TypeOK
<1>3. TypeOK'
  BY <1>1, <1>2 DEF TypeOK, Coherent, Place, RunsPermitted
<1>4. RunsPermitted'
  BY <1>1, <1>2 DEF RunsPermitted
<1>5. CountersMatch'
  BY <1>1, <1>2 DEF CountersMatch
<1>. QED BY <1>1, <1>3, <1>4, <1>5

LEMMA HealthStep == HealthInv /\ [Next]_vars => HealthInv'
<1> SUFFICES ASSUME HealthInv, [Next]_vars PROVE HealthInv'
  OBVIOUS
<1> USE Thresholds
<1>0. /\ TypeOK /\ Coherent(breaker) /\ RunsPermitted /\ CountersMatch
      /\ breaker.failures \in Nat /\ consecutiveFails \in Nat
  BY DEF HealthInv, Coherent, Breaker, TypeOK
<1>1. CASE AcceptTask
  <2>1. /\ Untouched(breaker, breaker') /\ breaker'.state # "open"
    BY <1>1, ProbeUntouched DEF AcceptTask, Healthy
  <2>2. TypeOK'
    BY <1>0, <1>1, <2>1 DEF TypeOK, AcceptTask, Untouched, Coherent, Place
  <2>3. RunsPermitted' /\ CountersMatch'
    BY <1>0, <1>1, <2>1 DEF AcceptTask, Untouched, RunsPermitted, CountersMatch
  <2>. QED BY <2>1, <2>2, <2>3 DEF HealthInv, Untouched
<1>2. CASE RefuseTask
  BY <1>0, <1>2, ProbeUntouched, AskKeeps DEF RefuseTask, TypeOK
<1>3. CASE RetryAttempt
  BY <1>0, <1>3 DEF RetryAttempt, HealthInv, TypeOK, Coherent, RunsPermitted, CountersMatch
<1>4. CASE TaskFails \/ TaskPanics \/ DeliveryPanics
  BY <1>4, FailureKeeps DEF TaskFails, TaskPanics, DeliveryPanics
<1>5. CASE TaskSucceeds
  <2>1. breaker.state # "open"
    BY <1>0, <1>5 DEF TaskSucceeds, RunsPermitted
  <2>2. /\ Coherent(breaker') /\ breaker'.state # "open"
        /\ breaker'.failures <= breaker.failures
        /\ breaker'.state = "closed" => breaker'.failures = 0
    BY <1>0, <1>5, <2>1, SuccessBreaker DEF TaskSucceeds
  <2>3. breaker'.failures \in Nat
    BY <2>2 DEF Coherent, Breaker
  <2>4. TypeOK'
    BY <1>0, <1>5, <2>2, <2>3 DEF TypeOK, TaskSucceeds, Coherent, Place
  <2>5. RunsPermitted' /\ CountersMatch'
    BY <1>0, <1>5, <2>2, <2>3 DEF TaskSucceeds, RunsPermitted, CountersMatch
  <2>. QED BY <2>2, <2>4, <2>5 DEF HealthInv
<1>6. CASE ResetFails
  BY <1>0, <1>6 DEF ResetFails, HealthInv, TypeOK, Place, Coherent, RunsPermitted, CountersMatch
<1>7. CASE CountFail
  BY <1>0, <1>7 DEF CountFail, Return, HealthInv, TypeOK, Place, Coherent, RunsPermitted,
                    CountersMatch
<1>8. CASE EndDelivery
  BY <1>0, <1>8 DEF EndDelivery, Return, HealthInv, TypeOK, Place, Coherent, RunsPermitted,
                    CountersMatch
<1>9. CASE PerformHealthCheck
  BY <1>0, <1>9, ProbeUntouched, AskKeeps DEF PerformHealthCheck, TypeOK, Permits
<1>10. CASE Observe
  BY <1>0, <1>10, ProbeUntouched, AskKeeps DEF Observe, TypeOK
<1>11. CASE OpenPeriodEnds
  <2>1. Untouched(breaker, breaker')
    BY <1>0, <1>11 DEF OpenPeriodEnds, Untouched, Coherent, Breaker, BreakerState
  <2>. QED BY <1>0, <1>11, <2>1, AskKeeps DEF OpenPeriodEnds, TypeOK
<1>12. CASE CheckGrowsStale
  BY <1>0, <1>12 DEF CheckGrowsStale, HealthInv, TypeOK, Coherent, RunsPermitted, CountersMatch
<1>13. CASE UNCHANGED vars
  BY <1>0, <1>13 DEF vars, HealthInv, TypeOK, Coherent, RunsPermitted, CountersMatch
<1>. QED BY <1>1, <1>2, <1>3, <1>4, <1>5, <1>6, <1>7, <1>8, <1>9, <1>10, <1>11, <1>12, <1>13
         DEF Next, WorkerStep

-----------------------------------------------------------------------------
(* The theorems.                                                           *)

LEMMA HealthAlways == Spec => []HealthInv
BY HealthInit, HealthStep, PTL DEF Spec

\* For all thresholds the worker's variables keep their types and the failures on
\* record stay within the bound of the model.
THEOREM HealthTyped == Spec => []TypeOK
<1>1. HealthInv => TypeOK
  BY DEF HealthInv
<1>. QED BY <1>1, HealthAlways, PTL

\* For all thresholds the breaker's state, failures and successCount tell one story,
\* whoever asks it between a task's permission and its outcome.
THEOREM BreakerAlwaysCoherent == Spec => []BreakerCoherent
<1>1. HealthInv => BreakerCoherent
  BY DEF HealthInv, Coherent, BreakerCoherent
<1>. QED BY <1>1, HealthAlways, PTL

\* For all thresholds consecutiveFails and the breaker's failures agree between
\* tasks, although every outcome updates them one after the other.
THEOREM CountersAlwaysAgree == Spec => []CountersAgree
<1>1. HealthInv => CountersAgree
  BY DEF HealthInv, CountersMatch, CountersAgree
<1>. QED BY <1>1, HealthAlways, PTL

\* For all thresholds a running task never finds its breaker open.
THEOREM NeverOnOpenBreaker == Spec => []NeverRunsOpen
<1>1. HealthInv => NeverRunsOpen
  BY DEF HealthInv, RunsPermitted, NeverRunsOpen
<1>. QED BY <1>1, HealthAlways, PTL

\* For all thresholds the breaker leaves open or half-open for closed only in the
\* step that records the SuccessThreshold-th trial success in a row.
THEOREM ClosingTakesTrials == Spec => ClosesAfterTrials
<1> DEFINE Closing ==
       breaker.state # "closed" /\ breaker'.state = "closed" =>
          /\ breaker.state = "half-open"
          /\ breaker.successCount = SuccessThreshold - 1
          /\ pc' = "succeeding"
<1>1. HealthInv /\ [Next]_vars => [Closing]_vars
  <2> SUFFICES ASSUME HealthInv, Next, breaker.state # "closed", breaker'.state = "closed"
               PROVE  Closing
    BY DEF vars
  <2>1. Coherent(breaker)
    BY DEF HealthInv
  <2>2. TaskSucceeds
    <3>1. ~(breaker' = breaker)
      OBVIOUS
    <3>2. ~(breaker' = Probed(breaker))
      BY <2>1, ProbedBreaker
    <3>3. ~(breaker' = RecordFailure(breaker))
      BY <2>1, FailureBreaker
    <3>4. ~OpenPeriodEnds
      BY <2>1 DEF OpenPeriodEnds, Coherent, Breaker, BreakerState
    <3>. QED BY <3>1, <3>2, <3>3, <3>4
             DEF Next, WorkerStep, AcceptTask, RefuseTask, RetryAttempt, TaskFails, TaskPanics,
                 DeliveryPanics, BreakerFailure, ResetFails, CountFail, EndDelivery, Return,
                 PerformHealthCheck, Observe, CheckGrowsStale
  <2>. QED BY <2>1, <2>2, SuccessBreaker DEF TaskSucceeds
<1>. QED BY <1>1, HealthAlways, PTL DEF Spec, ClosesAfterTrials

\* For all thresholds a worker locked out by its failures in a row stays locked out:
\* no health check, observer or end of an open period lets a task through again.
THEOREM LockoutForever == Spec => LockoutIsForever
<1>1. HealthInv /\ [Next]_vars => [LockedOut => LockedOut']_vars
  <2> SUFFICES ASSUME HealthInv, Next, LockedOut PROVE LockedOut'
    OBVIOUS
  <2>1. ~AcceptTask
    BY Thresholds DEF HealthInv, TypeOK, LockedOut, AcceptTask, Healthy
  <2>. QED BY <2>1
           DEF LockedOut, Next, WorkerStep, RefuseTask, RetryAttempt,
               TaskFails, TaskPanics, TaskSucceeds, DeliveryPanics, BreakerFailure, ResetFails,
               CountFail, EndDelivery, Return, PerformHealthCheck, Observe, OpenPeriodEnds,
               CheckGrowsStale
<1>. QED BY <1>1, HealthAlways, PTL DEF Spec, LockoutIsForever
=============================================================================
