--------------------------- MODULE CircuitProofs ----------------------------
(***************************************************************************)
(* Proofs about the circuit breaker, for any number of callers, any limit  *)
(* of failures and any quota of successes.                                 *)
(***************************************************************************)
EXTENDS CircuitBreaker, TLAPS

\* A closed circuit has counted exactly the failures since the last success.
Counted == state = "CLOSED" => failures = streak

\* Until a success comes in while it is open, a circuit that opened remembers
\* all the failures that opened it.
Remembered == state # "CLOSED" /\ ~forgiven => failures = MaxFailures

IInv == TypeOK /\ WithinLimits /\ Counted /\ Remembered

LEMMA BumpBound == \A n \in 0..MaxFailures : Bump(n) \in 0..MaxFailures
BY CircuitAssumption DEF Bump

LEMMA InitInv == Init => IInv
<1> SUFFICES ASSUME Init PROVE IInv
    OBVIOUS
<1> USE CircuitAssumption
<1>1. /\ state = "CLOSED" /\ failures = 0 /\ successes = 0 /\ elapsed = FALSE /\ streak = 0
      /\ forgiven = FALSE /\ WithinLimits /\ Counted /\ Remembered
    BY DEF Init, WithinLimits, Counted, Remembered
<1>2. [skipped |-> FALSE, error |-> Nil] \in Contexts /\ Nil \in Answers
    BY DEF Contexts, Answers
<1>3. /\ pc \in [Callers -> {"idle", "around", "reject", "service", "after", "done"}]
      /\ ctx \in [Callers -> Contexts]
      /\ answer \in [Callers -> Answers]
    BY <1>2 DEF Init
<1>4. failures \in 0..MaxFailures /\ streak \in 0..MaxFailures /\ successes \in 0..SuccessesNeeded
    BY <1>1
<1>5. TypeOK
    BY <1>1, <1>3, <1>4 DEF TypeOK
<1> QED
    BY <1>1, <1>5 DEF IInv

\* What the results of calls do to the circuit.
LEMMA RecordInv ==
    ASSUME IInv, RecordFailure \/ RecordSuccess
    PROVE  /\ state' \in {"CLOSED", "OPEN", "HALF_OPEN"}
           /\ failures' \in 0..MaxFailures /\ successes' \in 0..SuccessesNeeded
           /\ elapsed' \in BOOLEAN /\ streak' \in 0..MaxFailures
           /\ forgiven' \in BOOLEAN
           /\ WithinLimits' /\ Counted' /\ Remembered'
           /\ state = "CLOSED" /\ state' = "OPEN" => streak' >= MaxFailures
           /\ \/ state' = state
              \/ state' = "OPEN" /\ state \in {"CLOSED", "HALF_OPEN"}
              \/ state' = "CLOSED" /\ state = "HALF_OPEN"
<1> USE CircuitAssumption DEF IInv, TypeOK, WithinLimits, Counted, Remembered
<1>0. /\ MaxFailures \in Nat \ {0} /\ SuccessesNeeded \in Nat \ {0}
      /\ state \in {"CLOSED", "OPEN", "HALF_OPEN"}
      /\ failures \in 0..MaxFailures /\ successes \in 0..SuccessesNeeded
      /\ elapsed \in BOOLEAN /\ streak \in 0..MaxFailures /\ forgiven \in BOOLEAN
    OBVIOUS
<1>1. CASE RecordFailure
    <2>1. failures' \in 0..MaxFailures /\ streak' \in 0..MaxFailures
        BY <1>1, BumpBound DEF RecordFailure
    <2>2. state = "CLOSED" => failures' = streak'
        BY <1>1 DEF RecordFailure
    <2>3. CASE failures' >= MaxFailures
        <3>1. state' = "OPEN" /\ elapsed' = FALSE /\ forgiven' = FALSE /\ successes' = successes
            BY <1>1, <2>3 DEF RecordFailure
        <3>2. failures' = MaxFailures
            BY <1>0, <2>1, <2>3
        <3>3. forgiven' \in BOOLEAN
            BY <3>1
        <3>4. Remembered'
            BY <3>2
        <3> QED
            BY <1>0, <2>1, <2>2, <2>3, <3>1, <3>2, <3>3, <3>4
    <2>4. CASE ~(failures' >= MaxFailures)
        <3>1. /\ state' = state /\ elapsed' = elapsed /\ successes' = successes
              /\ forgiven' = forgiven
            BY <1>1, <2>4 DEF RecordFailure
        <3>2. state = "CLOSED" \/ forgiven
            BY <1>0, <1>1, <2>4 DEF RecordFailure, Bump
        <3> QED
            BY <1>0, <2>1, <2>2, <2>4, <3>1, <3>2
    <2> QED
        BY <2>3, <2>4
<1>2. CASE RecordSuccess
    <2>0. /\ streak' = 0 /\ elapsed' = elapsed
          /\ forgiven' = (forgiven \/ state = "OPEN")
        BY <1>2 DEF RecordSuccess
    <2>1. CASE state = "HALF_OPEN"
        <3>1. successes' = successes + 1 /\ successes' \in 0..SuccessesNeeded
            BY <1>2, <2>1 DEF RecordSuccess
        <3>2. CASE successes' >= SuccessesNeeded
            <4>1. state' = "CLOSED" /\ failures' = 0
                BY <1>2, <2>1, <3>2 DEF RecordSuccess
            <4> QED
                BY <1>0, <2>0, <2>1, <3>1, <4>1
        <3>3. CASE ~(successes' >= SuccessesNeeded)
            <4>1. state' = state /\ failures' = failures
                BY <1>2, <2>1, <3>3 DEF RecordSuccess
            <4> QED
                BY <1>0, <2>0, <2>1, <3>1, <3>3, <4>1
        <3> QED
            BY <3>2, <3>3
    <2>2. CASE state # "HALF_OPEN"
        <3>1. state' = state /\ failures' = 0 /\ successes' = successes
            BY <1>2, <2>2 DEF RecordSuccess
        <3>2. forgiven' \in BOOLEAN
            BY <1>0, <2>0
        <3>3. Remembered'
            BY <1>0, <2>0, <2>2, <3>1
        <3> QED
            BY <1>0, <2>0, <2>2, <3>1, <3>2, <3>3
    <2> QED
        BY <2>1, <2>2
<1> QED
    BY <1>1, <1>2

LEMMA StepInv ==
    ASSUME IInv, NEW c \in Callers, Invoke(c) \/ Step(c)
    PROVE  /\ IInv'
           /\ state = "CLOSED" /\ state' = "OPEN" => streak' >= MaxFailures
           /\ \/ state' = state
              \/ <<state, state'>> \in {<<"CLOSED", "OPEN">>, <<"OPEN", "HALF_OPEN">>,
                                        <<"HALF_OPEN", "OPEN">>, <<"HALF_OPEN", "CLOSED">>}
<1> USE CircuitAssumption DEF IInv, TypeOK
<1>1. CASE Invoke(c)
    BY <1>1 DEF Invoke, Goto, circuit, history, Contexts, Answers, WithinLimits, Counted, Remembered
<1>2. CASE CheckCircuit(c)
    BY <1>2 DEF CheckCircuit, Goto, history, WithinLimits, Counted, Remembered
<1>3. CASE Reject(c)
    BY <1>3 DEF Reject, Goto, circuit, history, Contexts, WithinLimits, Counted, Remembered
<1>4. CASE ServiceReturns(c)
    <2>1. PICK err \in {Nil, "unavailable"} :
              /\ ctx' = [ctx EXCEPT ![c].error = err]
              /\ answer' = [answer EXCEPT ![c] = err]
        BY <1>4 DEF ServiceReturns
    <2>2. ctx' \in [Callers -> Contexts] /\ answer' \in [Callers -> Answers]
        BY <2>1 DEF Contexts, Answers
    <2> QED
        BY <1>4, <2>2 DEF ServiceReturns, Goto, circuit, history, WithinLimits, Counted, Remembered
<1>5. CASE ServicePanics(c)
    BY <1>5 DEF ServicePanics, Goto, circuit, history, Answers, WithinLimits, Counted, Remembered
<1>6. CASE Record(c)
    <2>1. /\ pc' \in [Callers -> {"idle", "around", "reject", "service", "after", "done"}]
          /\ UNCHANGED <<ctx, answer>>
        BY <1>6 DEF Record, Goto
    <2>2. RecordFailure \/ RecordSuccess \/ UNCHANGED <<circuit, history>>
        BY <1>6 DEF Record
    <2>3. CASE RecordFailure \/ RecordSuccess
        BY <2>1, <2>3, RecordInv
    <2>4. CASE UNCHANGED <<circuit, history>>
        BY <2>1, <2>4 DEF circuit, history, WithinLimits, Counted, Remembered
    <2> QED
        BY <2>2, <2>3, <2>4
<1>7. CASE Return(c)
    BY <1>7 DEF Return, Goto, circuit, history, WithinLimits, Counted, Remembered
<1> QED
    BY <1>1, <1>2, <1>3, <1>4, <1>5, <1>6, <1>7 DEF Step

LEMMA NextInv ==
    IInv /\ [Next]_vars =>
        /\ IInv'
        /\ state = "CLOSED" /\ state' = "OPEN" => streak' >= MaxFailures
        /\ \/ <<state, state'>> \in {<<"CLOSED", "OPEN">>, <<"OPEN", "HALF_OPEN">>,
                                     <<"HALF_OPEN", "OPEN">>, <<"HALF_OPEN", "CLOSED">>}
           \/ state' = state
           \/ ResetCircuit
<1> SUFFICES ASSUME IInv, [Next]_vars
             PROVE  /\ IInv'
                    /\ state = "CLOSED" /\ state' = "OPEN" => streak' >= MaxFailures
                    /\ \/ <<state, state'>> \in
                             {<<"CLOSED", "OPEN">>, <<"OPEN", "HALF_OPEN">>,
                              <<"HALF_OPEN", "OPEN">>, <<"HALF_OPEN", "CLOSED">>}
                       \/ state' = state
                       \/ ResetCircuit
    OBVIOUS
<1>1. CASE \E c \in Callers : Invoke(c) \/ Step(c)
    BY <1>1, StepInv
<1>2. CASE TimeoutElapses
    <2>1. /\ state = "OPEN" /\ elapsed' = TRUE
          /\ UNCHANGED <<state, failures, successes, pc, ctx, answer, history>>
        BY <1>2 DEF TimeoutElapses
    <2>2. UNCHANGED <<streak, forgiven>>
        BY <2>1 DEF history
    <2>3. TypeOK'
        BY <2>1, <2>2 DEF IInv, TypeOK
    <2>4. WithinLimits' /\ Counted' /\ Remembered'
        BY <2>1, <2>2 DEF IInv, WithinLimits, Counted, Remembered
    <2> QED
        BY <2>1, <2>3, <2>4 DEF IInv
<1>3. CASE ResetCircuit
    <2>1. /\ state' = "CLOSED" /\ failures' = 0 /\ streak' = 0
          /\ UNCHANGED <<successes, elapsed, pc, ctx, answer, forgiven>>
        BY <1>3 DEF ResetCircuit
    <2>2. TypeOK'
        BY <2>1, CircuitAssumption DEF IInv, TypeOK
    <2>3. WithinLimits' /\ Counted' /\ Remembered'
        BY <2>1, CircuitAssumption DEF WithinLimits, Counted, Remembered
    <2>4. state' # "OPEN"
        BY <2>1
    <2> QED
        BY <1>3, <2>2, <2>3, <2>4 DEF IInv
<1>4. CASE UNCHANGED vars
    BY <1>4 DEF vars, circuit, history, IInv, TypeOK, WithinLimits, Counted, Remembered
<1> QED
    BY <1>1, <1>2, <1>3, <1>4 DEF Next

LEMMA CircuitInvariance == Spec => []IInv
<1>1. IInv /\ [Next]_vars => IInv'
    BY NextInv
<1> QED
    BY <1>1, InitInv, PTL DEF Spec

\* State, counters and contexts of the circuit breaker have their types; no
\* counter passes its limit, although late results are counted as well.
THEOREM CircuitTypeCorrect == Spec => []TypeOK
<1>1. IInv => TypeOK
    BY DEF IInv
<1> QED
    BY <1>1, CircuitInvariance, PTL

\* However many calls are in flight, a closed circuit is below its limit and a
\* half-open one below its quota.
THEOREM CircuitLimits == Spec => []WithinLimits
<1>1. IInv => WithinLimits
    BY DEF IInv
<1> QED
    BY <1>1, CircuitInvariance, PTL

\* A closed circuit opens only after maxFailures failures in a row.
THEOREM CircuitOpensForReason == Spec => OpensAfterStreak
<1>1. IInv /\ [Next]_vars =>
          [state = "CLOSED" /\ state' = "OPEN" => streak' >= MaxFailures]_vars
    BY NextInv
<1> QED
    BY <1>1, CircuitInvariance, PTL DEF Spec, OpensAfterStreak

\* Apart from the reset, the circuit goes from CLOSED to OPEN, from OPEN to
\* HALF_OPEN, and from there to one of the two.
THEOREM CircuitStates == Spec => StatesInOrder
<1>1. IInv /\ [Next]_vars =>
          [\/ <<state, state'>> \in {<<"CLOSED", "OPEN">>, <<"OPEN", "HALF_OPEN">>,
                                     <<"HALF_OPEN", "OPEN">>, <<"HALF_OPEN", "CLOSED">>}
           \/ state' = state
           \/ ResetCircuit]_vars
    BY NextInv
<1> QED
    BY <1>1, CircuitInvariance, PTL DEF Spec, StatesInOrder

\* One failed probe opens a half-open circuit again, unless a success came in
\* while it was open.
THEOREM ProbesDecide == Spec => FailedProbeReopens
<1>1. ASSUME IInv, NEW c \in Callers, Record(c), ~ctx[c].skipped, ctx[c].error # Nil,
             state = "HALF_OPEN", ~forgiven
      PROVE  state' = "OPEN"
    <2>1. RecordFailure /\ MaxFailures \in Nat \ {0}
        BY <1>1, CircuitAssumption DEF Record
    <2>2. failures = MaxFailures
        BY <1>1 DEF IInv, Remembered
    <2>3. failures' = MaxFailures
        BY <2>1, <2>2 DEF RecordFailure, Bump
    <2> QED
        BY <2>1, <2>3 DEF RecordFailure
<1>2. IInv /\ [Next]_vars =>
          [\A c \in Callers :
              /\ state = "HALF_OPEN" /\ ~forgiven
              /\ Record(c) /\ ~ctx[c].skipped /\ ctx[c].error # Nil
              => state' = "OPEN"]_vars
    BY <1>1
<1> QED
    BY <1>2, CircuitInvariance, PTL DEF Spec, FailedProbeReopens
=============================================================================
