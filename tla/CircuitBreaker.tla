--------------------------- MODULE CircuitBreaker ---------------------------
(***************************************************************************)
(* The CircuitBreaker of src/pkg/workflow/circuit_breaker.go as a value    *)
(* and the functions its methods compute on it.  Every method runs under   *)
(* cb.mu, so a component that calls one takes one step.  Time appears only *)
(* as cooled: whether more than openStateDuration has passed since         *)
(* lastFailure (true of the zero time a new breaker has).                  *)
(***************************************************************************)
EXTENDS Naturals

CONSTANTS
    FailureThreshold,   \* cb.failureThreshold, 5
    SuccessThreshold    \* cb.successThreshold, 3

ASSUME BreakerAssumption ==
    /\ FailureThreshold \in Nat \ {0}
    /\ SuccessThreshold \in Nat \ {0}

BreakerState == {"closed", "open", "half-open"}

Breaker == [state : BreakerState, failures : Nat, successCount : Nat, cooled : BOOLEAN]

NewBreaker == [state |-> "closed", failures |-> 0, successCount |-> 0, cooled |-> TRUE]

\* Mutant of RecordSuccess: closing keeps the failures on record.
CloseKeepsFailures(cb) ==
    CASE cb.state = "closed"    -> [cb EXCEPT !.failures = 0]
      [] cb.state = "half-open" ->
            IF cb.successCount + 1 >= SuccessThreshold
               THEN [cb EXCEPT !.state = "closed", !.successCount = 0]
               ELSE [cb EXCEPT !.successCount = @ + 1]
      [] cb.state = "open"      -> cb

\* Mutant of RecordSuccess: one trial too few closes the breaker.
CloseOneEarly(cb) ==
    CASE cb.state = "closed"    -> [cb EXCEPT !.failures = 0]
      [] cb.state = "half-open" ->
            IF cb.successCount + 2 >= SuccessThreshold
               THEN [cb EXCEPT !.state = "closed", !.failures = 0, !.successCount = 0]
               ELSE [cb EXCEPT !.successCount = @ + 1]
      [] cb.state = "open"      -> cb

\* A success reported while the breaker is open changes nothing.
RecordSuccess(cb) ==
    CASE cb.state = "closed"    -> [cb EXCEPT !.failures = 0]
      [] cb.state = "half-open" ->
            IF cb.successCount + 1 >= SuccessThreshold
               THEN [cb EXCEPT !.state = "closed", !.failures = 0, !.successCount = 0]
               ELSE [cb EXCEPT !.successCount = @ + 1]
      [] cb.state = "open"      -> cb

RecordFailure(cb) ==
    LET failed == [cb EXCEPT !.failures = @ + 1, !.cooled = FALSE] IN
    IF cb.state = "half-open"
       THEN [failed EXCEPT !.state = "open", !.successCount = 0]
       ELSE IF failed.failures >= FailureThreshold
               THEN [failed EXCEPT !.state = "open"]
               ELSE failed

\* CanExecute answers Permits(cb) and leaves the breaker Probed(cb): asking is what
\* moves a cooled breaker to half-open, whoever asks.
Permits(cb) == cb.state # "open" \/ cb.cooled

Probed(cb) ==
    IF cb.state = "open" /\ cb.cooled
       THEN [cb EXCEPT !.state = "half-open", !.successCount = 0]
       ELSE cb
=============================================================================
