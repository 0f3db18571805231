--------------------------- MODULE CircuitBreaker ---------------------------
(***************************************************************************)
(* examples/04_circuit_breaker: a circuit breaker made of Around and After *)
(* advice, shared by concurrent calls of CallExternalService.              *)
(*                                                                         *)
(* A call goes the way that module Weave gives to a chain with one Before  *)
(* handler, which only logs, one Around and one After handler, under       *)
(* Wrap1RE.  Both handlers lock the circuit's mutex around what they do to *)
(* it, so each is one step; other calls come between the two steps.        *)
(***************************************************************************)
EXTENDS Naturals

CONSTANTS
    Callers,            \* goroutines that call CallExternalService
    MaxFailures,        \* maxFailures
    SuccessesNeeded     \* successesNeeded

ASSUME CircuitAssumption ==
    MaxFailures \in Nat \ {0} /\ SuccessesNeeded \in Nat \ {0}

VARIABLES
    state,      \* "CLOSED", "OPEN" or "HALF_OPEN"
    failures,   \* failures counted
    successes,  \* successes counted in HALF_OPEN
    elapsed,    \* resetTimeout has passed since openedAt
    pc,         \* where each caller is
    ctx,        \* its context: Skipped and Error
    answer,     \* the error its caller gets, or that the call panicked
    streak,     \* history: failures recorded since the last success or reset
    forgiven    \* history: a success has been recorded while the circuit was
                \* OPEN, since it opened last

circuit == <<state, failures, successes, elapsed>>
history == <<streak, forgiven>>
vars    == <<circuit, pc, ctx, answer, history>>

Nil == "nil"
Contexts == [skipped : BOOLEAN, error : {Nil, "circuit open", "unavailable"}]
Answers  == {Nil, "unavailable", "panic"}

\* Failures beyond the limit are not told apart: the counter is only compared
\* with the limit and set to 0.
Bump(n) == IF n < MaxFailures THEN n + 1 ELSE n

\* NewCircuitBreaker.
Init ==
    /\ state = "CLOSED" /\ failures = 0 /\ successes = 0
    /\ elapsed = FALSE
    /\ pc = [c \in Callers |-> "idle"]
    /\ ctx = [c \in Callers |-> [skipped |-> FALSE, error |-> Nil]]
    /\ answer = [c \in Callers |-> Nil]
    /\ streak = 0 /\ forgiven = FALSE

-----------------------------------------------------------------------------
(* One call.                                                               *)

Goto(c, place) == pc' = [pc EXCEPT ![c] = place]

\* The call gets a context of its own; the Before handler only logs.
Invoke(c) ==
    /\ pc[c] = "idle"
    /\ Goto(c, "around")
    /\ ctx' = [ctx EXCEPT ![c] = [skipped |-> FALSE, error |-> Nil]]
    /\ answer' = [answer EXCEPT ![c] = Nil]
    /\ UNCHANGED <<circuit, history>>

\* Faulty: the successes of the last recovery are kept.
CheckCircuitKeepingSuccesses(c) ==
    /\ pc[c] = "around"
    /\ state' = IF state = "OPEN" /\ elapsed THEN "HALF_OPEN" ELSE state
    /\ Goto(c, IF state' = "OPEN" THEN "reject" ELSE "service")
    /\ UNCHANGED <<failures, successes, elapsed, ctx, answer, history>>

\* Faulty: an open circuit is probed only when its failures have been cleared.
CheckCircuitStuck(c) ==
    LET probing == state = "OPEN" /\ elapsed /\ failures < MaxFailures
    IN  /\ pc[c] = "around"
        /\ state' = IF probing THEN "HALF_OPEN" ELSE state
        /\ successes' = IF probing THEN 0 ELSE successes
        /\ Goto(c, IF state' = "OPEN" THEN "reject" ELSE "service")
        /\ UNCHANGED <<failures, elapsed, ctx, answer, history>>

\* The Around handler's critical section: after the timeout the circuit goes
\* to HALF_OPEN, and the state it then has decides about the call.
CheckCircuit(c) ==
    LET probing == state = "OPEN" /\ elapsed
    IN  /\ pc[c] = "around"
        /\ state' = IF probing THEN "HALF_OPEN" ELSE state
        /\ successes' = IF probing THEN 0 ELSE successes
        /\ Goto(c, IF state' = "OPEN" THEN "reject" ELSE "service")
        /\ UNCHANGED <<failures, elapsed, ctx, answer, history>>

\* The rest of the Around handler when the circuit is open.
Reject(c) ==
    /\ pc[c] = "reject"
    /\ Goto(c, "after")
    /\ ctx' = [ctx EXCEPT ![c] = [skipped |-> TRUE, error |-> "circuit open"]]
    /\ UNCHANGED <<circuit, answer, history>>

\* callExternalServiceImpl, in the closure of Wrap1RE: what it returns is what
\* the caller gets, and is copied to the context.
ServiceReturns(c) ==
    /\ pc[c] = "service"
    /\ \E err \in {Nil, "unavailable"} :
          /\ ctx' = [ctx EXCEPT ![c].error = err]
          /\ answer' = [answer EXCEPT ![c] = err]
    /\ Goto(c, "after")
    /\ UNCHANGED <<circuit, history>>

\* A panic runs the After handler with ctx.Error as it was.
ServicePanics(c) ==
    /\ pc[c] = "service"
    /\ answer' = [answer EXCEPT ![c] = "panic"]
    /\ Goto(c, "after")
    /\ UNCHANGED <<circuit, ctx, history>>

\* Faulty: the limit is checked before the failure is counted.
RecordFailureLate ==
    /\ failures' = Bump(failures)
    /\ streak' = Bump(streak)
    /\ IF failures >= MaxFailures
       THEN state' = "OPEN" /\ elapsed' = FALSE /\ forgiven' = FALSE
       ELSE UNCHANGED <<state, elapsed, forgiven>>
    /\ UNCHANGED successes

RecordFailure ==
    /\ failures' = Bump(failures)
    /\ streak' = Bump(streak)
    /\ IF failures' >= MaxFailures
       THEN state' = "OPEN" /\ elapsed' = FALSE /\ forgiven' = FALSE
       ELSE UNCHANGED <<state, elapsed, forgiven>>
    /\ UNCHANGED successes

\* Faulty: a success outside HALF_OPEN does not clear the failures.
RecordSuccessKeepingFailures ==
    /\ streak' = 0 /\ forgiven' = (forgiven \/ state = "OPEN")
    /\ IF state = "HALF_OPEN"
       THEN /\ successes' = successes + 1
            /\ IF successes' >= SuccessesNeeded
               THEN state' = "CLOSED" /\ failures' = 0
               ELSE UNCHANGED <<state, failures>>
       ELSE UNCHANGED <<state, failures, successes>>
    /\ UNCHANGED elapsed

\* Faulty: the first successful probe clears the failures.
RecordSuccessForgiving ==
    /\ streak' = 0 /\ forgiven' = (forgiven \/ state = "OPEN")
    /\ failures' = 0
    /\ IF state = "HALF_OPEN"
       THEN /\ successes' = successes + 1
            /\ state' = IF successes' >= SuccessesNeeded THEN "CLOSED" ELSE state
       ELSE UNCHANGED <<state, successes>>
    /\ UNCHANGED elapsed

\* Faulty: a success closes the circuit in whatever state it is.
RecordSuccessClosing ==
    /\ streak' = 0 /\ forgiven' = (forgiven \/ state = "OPEN")
    /\ state' = "CLOSED" /\ failures' = 0
    /\ UNCHANGED <<successes, elapsed>>

RecordSuccess ==
    /\ streak' = 0 /\ forgiven' = (forgiven \/ state = "OPEN")
    /\ IF state = "HALF_OPEN"
       THEN /\ successes' = successes + 1
            /\ IF successes' >= SuccessesNeeded
               THEN state' = "CLOSED" /\ failures' = 0
               ELSE UNCHANGED <<state, failures>>
       ELSE failures' = 0 /\ UNCHANGED <<state, successes>>
    /\ UNCHANGED elapsed

\* The After handler: a call that was skipped counts for nothing, one without
\* an error in its context counts as a success.
Record(c) ==
    /\ pc[c] = "after"
    /\ CASE ctx[c].skipped -> UNCHANGED <<circuit, history>>
         [] ~ctx[c].skipped /\ ctx[c].error # Nil -> RecordFailure
         [] OTHER -> RecordSuccess
    /\ Goto(c, "done")
    /\ UNCHANGED <<ctx, answer>>

Return(c) ==
    /\ pc[c] = "done"
    /\ Goto(c, "idle")
    /\ UNCHANGED <<circuit, ctx, answer, history>>

-----------------------------------------------------------------------------
(* Surroundings.                                                           *)

TimeoutElapses ==
    /\ state = "OPEN" /\ ~elapsed
    /\ elapsed' = TRUE
    /\ UNCHANGED <<state, failures, successes, pc, ctx, answer, history>>

\* Example 3 resets the circuit between calls.
ResetCircuit ==
    /\ \A c \in Callers : pc[c] = "idle"
    /\ state' = "CLOSED" /\ failures' = 0
    /\ streak' = 0
    /\ UNCHANGED <<successes, elapsed, pc, ctx, answer, forgiven>>

Step(c) ==
    \/ CheckCircuit(c) \/ Reject(c)
    \/ ServiceReturns(c) \/ ServicePanics(c)
    \/ Record(c) \/ Return(c)

Next ==
    \/ \E c \in Callers : Invoke(c) \/ Step(c)
    \/ TimeoutElapses \/ ResetCircuit

\* Time passes, calls that have begun go on, and the service answers.  Nobody
\* has to begin a call.
Fairness == WF_vars(TimeoutElapses) /\ \A c \in Callers : WF_vars(Step(c))

Spec == Init /\ [][Next]_vars /\ Fairness

-----------------------------------------------------------------------------
(* Properties.                                                             *)

TypeOK ==
    /\ state \in {"CLOSED", "OPEN", "HALF_OPEN"}
    /\ failures \in 0..MaxFailures
    /\ successes \in 0..SuccessesNeeded
    /\ elapsed \in BOOLEAN
    /\ pc \in [Callers -> {"idle", "around", "reject", "service", "after", "done"}]
    /\ ctx \in [Callers -> Contexts]
    /\ answer \in [Callers -> Answers]
    /\ streak \in 0..MaxFailures
    /\ forgiven \in BOOLEAN

\* However results of calls admitted earlier come in, a closed circuit has not
\* reached its limit of failures, nor a half-open one its quota of successes:
\* no update was missed between the handlers of concurrent calls.
WithinLimits ==
    /\ state = "CLOSED" => failures < MaxFailures
    /\ state = "HALF_OPEN" => successes < SuccessesNeeded

\* A closed circuit opens only after MaxFailures failures in a row: a success
\* of any call in between starts the count again.
OpensAfterStreak ==
    [][state = "CLOSED" /\ state' = "OPEN" => streak' >= MaxFailures]_vars

\* The order of states in examples/README.md, CLOSED, OPEN, HALF_OPEN: late
\* results of calls from an earlier state never close an open circuit.
StatesInOrder ==
    [][\/ <<state, state'>> \in {<<"CLOSED", "OPEN">>, <<"OPEN", "HALF_OPEN">>,
                                 <<"HALF_OPEN", "OPEN">>, <<"HALF_OPEN", "CLOSED">>}
       \/ state' = state
       \/ ResetCircuit]_vars

\* If calls keep coming, an open circuit lets one through again: failures that
\* come in late restart the timeout, but not for ever.
ProbedAgain ==
    []<><<\E c \in Callers : Invoke(c)>>_vars => (state = "OPEN" ~> state # "OPEN")

\* One failed probe opens the circuit again, whatever the other calls in flight
\* have recorded, with one exception: a success that comes in late, while the
\* circuit is open, clears the failures, and then one failure is not enough.
FailedProbeReopens ==
    [][\A c \in Callers :
          /\ state = "HALF_OPEN" /\ ~forgiven
          /\ Record(c) /\ ~ctx[c].skipped /\ ctx[c].error # Nil
          => state' = "OPEN"]_vars
=============================================================================
