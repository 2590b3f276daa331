--------------------------- MODULE CircuitBreaker ---------------------------
(***************************************************************************)
(* The in-memory circuit breaker that guards one provider, as a value and  *)
(* the operators that read and change it.  Time is abstracted to what the  *)
(* breaker compares it with: a breaker that was opened either still waits  *)
(* for its recovery timeout ("waiting") or has outlasted it ("elapsed").   *)
(***************************************************************************)
EXTENDS Naturals

CONSTANT Threshold   \* failure_threshold: failures in a row that open the circuit

ASSUME ThresholdAssumption == Threshold \in Nat \ {0}

\* _consecutive_failures counts on above the threshold, but is only compared
\* with it and reset to 0, so that counting may stop there.
Breakers == [failures : 0 .. Threshold, opened : {"no", "waiting", "elapsed"}]

Fresh == [failures |-> 0, opened |-> "no"]

State(b) == CASE b.opened = "no" -> "closed"
              [] b.opened = "waiting" -> "open"
              [] b.opened = "elapsed" -> "half_open"

\* Faulty form: the calls are counted but nobody is turned away.
AllowAnyRequest(b) == State(b) \in {"closed", "open", "half_open"}

AllowRequest(b) == State(b) \in {"closed", "half_open"}

\* Faulty form: the count is reset but the opening time is kept.
RecordSuccessCountOnly(b) == [b EXCEPT !.failures = 0]

RecordSuccess(b) == Fresh

\* Faulty form: the circuit opens above the threshold, not at it.
RecordFailureAbove(b) ==
    IF b.failures >= Threshold
    THEN [b EXCEPT !.opened = "waiting"]
    ELSE [b EXCEPT !.failures = @ + 1]

\* Faulty form: the count is never compared with the threshold.
RecordFailureOnlyCounts(b) == [b EXCEPT !.failures = @ + 1]

\* A failure at the threshold (re)starts the recovery timeout.
RecordFailure(b) ==
    IF b.failures + 1 >= Threshold
    THEN [failures |-> Threshold, opened |-> "waiting"]
    ELSE [b EXCEPT !.failures = @ + 1]

\* recovery_timeout_sec has passed since the circuit opened.
Elapse(b) == [b EXCEPT !.opened = "elapsed"]
=============================================================================
