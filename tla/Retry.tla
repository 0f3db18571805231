------------------------------- MODULE Retry --------------------------------
(***************************************************************************)
(* examples/05_retry_pattern: WithRetry, which calls a function again      *)
(* until it returns no error or maxRetries retries have been made.  The    *)
(* function it calls belongs to whoever instantiates this module.  The     *)
(* delay between attempts is one step, however long it is.                 *)
(***************************************************************************)
EXTENDS Integers

CONSTANTS
    RetryLimits,    \* values of maxRetries
    RetryErrors,    \* errors the function can return
    NoError

\* With a negative maxRetries the function would never be called and the caller
\* would get a nil error; all callers in the repository pass 3 or 5.
ASSUME RetryAssumption == RetryLimits \subseteq Nat /\ NoError \notin RetryErrors

VARIABLES
    phase,      \* "idle", "test", "sleep", "ready", "calling", "returned", "panicked"
    limit,      \* maxRetries
    attempt,    \* the loop variable
    lastErr     \* the variable err

retryVars == <<phase, limit, attempt, lastErr>>

RetryInit ==
    /\ phase = "idle"
    /\ limit \in RetryLimits
    /\ attempt = 0
    /\ lastErr = NoError

Enter ==
    /\ phase = "idle"
    /\ phase' = "test"
    /\ UNCHANGED <<limit, attempt, lastErr>>

\* The condition of the loop, and whether to wait first.
Test ==
    /\ phase = "test"
    /\ phase' = CASE attempt > limit -> "returned"
                  [] attempt <= limit /\ attempt > 0 -> "sleep"
                  [] OTHER -> "ready"
    /\ UNCHANGED <<limit, attempt, lastErr>>

Sleep ==
    /\ phase = "sleep"
    /\ phase' = "ready"
    /\ UNCHANGED <<limit, attempt, lastErr>>

CallFunction ==
    /\ phase = "ready"
    /\ phase' = "calling"
    /\ UNCHANGED <<limit, attempt, lastErr>>

\* Faulty: the loop does not end at a success.
FunctionReturnsGoingOn(err) ==
    /\ phase = "calling"
    /\ lastErr' = err
    /\ phase' = "test" /\ attempt' = attempt + 1
    /\ UNCHANGED limit

\* Faulty: a later error does not replace the first.
FunctionReturnsFirstError(err) ==
    /\ phase = "calling"
    /\ lastErr' = IF err = NoError \/ lastErr = NoError THEN err ELSE lastErr
    /\ IF err = NoError
       THEN phase' = "returned" /\ UNCHANGED attempt
       ELSE phase' = "test" /\ attempt' = attempt + 1
    /\ UNCHANGED limit

\* Faulty: the loop does not count its attempts, and never ends if all fail.
FunctionReturnsUncounted(err) ==
    /\ phase = "calling"
    /\ lastErr' = err
    /\ phase' = IF err = NoError THEN "returned" ELSE "test"
    /\ UNCHANGED <<limit, attempt>>

FunctionReturns(err) ==
    /\ phase = "calling"
    /\ lastErr' = err
    /\ IF err = NoError
       THEN phase' = "returned" /\ UNCHANGED attempt
       ELSE phase' = "test" /\ attempt' = attempt + 1
    /\ UNCHANGED limit

\* A panic leaves WithRetry.
FunctionPanics ==
    /\ phase = "calling"
    /\ phase' = "panicked"
    /\ UNCHANGED <<limit, attempt, lastErr>>
=============================================================================
