--------------------------- MODULE CircuitBreaker ---------------------------
(***************************************************************************)
(* One circuit breaker and the coroutines that call through it.  Between   *)
(* its admission and its end a call is awaited, so calls admitted in one   *)
(* state of the circuit end in another.  A call ends with a result, with   *)
(* an exception, or by cancellation, which _on_failure does not see.       *)
(***************************************************************************)
EXTENDS Naturals, FiniteSets

CONSTANTS BreakerCallers,
          FailureThreshold,  \* failure_threshold
          ResetTimeout,      \* reset_timeout, in units of BreakerTick
          MaxCancels         \* bound on cancellations

ASSUME BreakerAssumption ==
    /\ {FailureThreshold, ResetTimeout} \subseteq Nat \ {0} /\ MaxCancels \in Nat

VARIABLES circuit,       \* [state, failures, attempts]: the fields of the breaker
          sinceFailure,  \* age of _last_failure_time, up to ResetTimeout
          running,       \* per caller "idle", or the state its call was admitted in
          healthy,       \* whether the dependency answers (once it does it goes on)
          cancels

breakerVars == <<circuit, sinceFailure, running, healthy, cancels>>

BreakerInit ==
    /\ circuit = [state |-> "closed", failures |-> 0, attempts |-> 0]
    /\ sinceFailure = ResetTimeout
    /\ running = [c \in BreakerCallers |-> "idle"]
    /\ healthy = FALSE
    /\ cancels = 0

-----------------------------------------------------------------------------

\* The property "state": OPEN turns into HALF_OPEN when it is looked at.
Looked ==
    IF circuit.state = "open" /\ sinceFailure >= ResetTimeout
    THEN [circuit EXCEPT !.state = "half_open", !.attempts = 0]
    ELSE circuit

\* Mutant: a second call passes as a test call.
AdmitsTwo(b) == b.state = "closed" \/ (b.state = "half_open" /\ b.attempts < 2)

Admits(b) == b.state = "closed" \/ (b.state = "half_open" /\ b.attempts = 0)

\* Every call that meets HALF_OPEN counts, the refused ones too; the model
\* stops counting at 2.
Counted(b) ==
    IF b.state = "half_open" /\ b.attempts < 2 THEN [b EXCEPT !.attempts = @ + 1] ELSE b

CallBegins(c) ==
    /\ running[c] = "idle"
    /\ circuit' = Counted(Looked)
    /\ running' = [running EXCEPT ![c] = IF Admits(Looked) THEN Looked.state ELSE "idle"]
    /\ UNCHANGED <<sinceFailure, healthy, cancels>>

\* Mutant: a success closes the circuit only in the state its call began in.
OnSuccessNever(b) ==
    IF b.state = "closed" THEN [b EXCEPT !.failures = 0] ELSE b

\* Mutant: a success gives the attempt back and leaves the circuit half-open.
OnSuccessStays(b) ==
    CASE b.state = "half_open" -> [b EXCEPT !.attempts = 0, !.failures = 0]
      [] b.state = "closed"    -> [b EXCEPT !.failures = 0]
      [] b.state = "open"      -> b

OnSuccess(b) ==
    CASE b.state = "half_open" -> [b EXCEPT !.state = "closed", !.failures = 0]
      [] b.state = "closed"    -> [b EXCEPT !.failures = 0]
      [] b.state = "open"      -> b

\* The count only matters up to the threshold.
OnFailure(b) ==
    LET n == IF b.failures < FailureThreshold THEN b.failures + 1 ELSE b.failures IN
    [b EXCEPT !.failures = n,
              !.state = IF b.state = "half_open" \/ n >= FailureThreshold THEN "open" ELSE @]

CallSucceeds(c) ==
    /\ running[c] # "idle"
    /\ circuit' = OnSuccess(circuit)
    /\ running' = [running EXCEPT ![c] = "idle"]
    /\ UNCHANGED <<sinceFailure, healthy, cancels>>

CallFails(c) ==
    /\ running[c] # "idle"
    /\ ~healthy
    /\ circuit' = OnFailure(circuit)
    /\ sinceFailure' = 0
    /\ running' = [running EXCEPT ![c] = "idle"]
    /\ UNCHANGED <<healthy, cancels>>

\* CancelledError is no Exception: neither branch runs.
CallCancelled(c) ==
    /\ running[c] # "idle"
    /\ cancels < MaxCancels
    /\ cancels' = cancels + 1
    /\ running' = [running EXCEPT ![c] = "idle"]
    /\ UNCHANGED <<circuit, sinceFailure, healthy>>

ManualReset ==
    /\ circuit' = [circuit EXCEPT !.state = "closed", !.failures = 0]
    /\ circuit' # circuit
    /\ UNCHANGED <<sinceFailure, running, healthy, cancels>>

BreakerTick ==
    /\ sinceFailure < ResetTimeout
    /\ sinceFailure' = sinceFailure + 1
    /\ UNCHANGED <<circuit, running, healthy, cancels>>

Recover ==
    /\ ~healthy
    /\ healthy' = TRUE
    /\ UNCHANGED <<circuit, sinceFailure, running, cancels>>

BreakerCall(c) == CallBegins(c) \/ CallSucceeds(c) \/ CallFails(c)

BreakerNext ==
    \/ \E c \in BreakerCallers : BreakerCall(c) \/ CallCancelled(c)
    \/ ManualReset \/ BreakerTick \/ Recover

BreakerSpec == BreakerInit /\ [][BreakerNext]_breakerVars

\* Callers keep calling, what they call returns or fails, time passes.
BreakerFairness ==
    /\ \A c \in BreakerCallers : WF_breakerVars(BreakerCall(c))
    /\ WF_breakerVars(BreakerTick)

-----------------------------------------------------------------------------
(* Properties                                                               *)

Tests == {c \in BreakerCallers : running[c] = "half_open"}

\* The circuit waits for a test call that nobody runs any more.
Waiting == circuit.state = "half_open" /\ circuit.attempts > 0 /\ Tests = {}

\* A half-open circuit with its one attempt spent has a test call running, or
\* one was cancelled: every other end of a call, in whatever order calls of
\* earlier states end, moves the circuit on.
StuckOnlyByCancellation == Waiting => cancels > 0

\* Test calls do not pile up: the circuit is half-open again only after the
\* failure of some call, and each period admits one.
OneTestPerPeriod ==
    \A c \in BreakerCallers :
        running[c] = "idle" /\ running'[c] = "half_open" =>
            circuit.state = "open" \/ circuit.attempts = 0

\* The test call of CircuitBreaker.call is one per period, and settles it.
TestCallSettles == [][OneTestPerPeriod /\ StuckOnlyByCancellation']_breakerVars

\* Once the dependency answers again, the circuit is closed again and again,
\* unless a cancelled test call left it waiting.
CircuitRecovers == []<>(healthy => circuit.state = "closed" \/ Waiting)

=============================================================================
