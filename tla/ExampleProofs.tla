---------------------------- MODULE ExampleProofs ----------------------------
(***************************************************************************)
(* Proofs of what the example programs rely on, for any set-up that        *)
(* satisfies SetupAssumption, any number of retries and any sessions that  *)
(* expire meanwhile.  A program is a client of the library: every one of   *)
(* its steps is a step of module Weave or leaves the calls alone, so the   *)
(* invariants of WeaveProofs and OutcomeProofs hold in it and carry most   *)
(* of the argument.                                                        *)
(***************************************************************************)
EXTENDS Examples, OutcomeProofs

-----------------------------------------------------------------------------
(* The inductive invariant.                                                *)

Name(p)     == request[p].function
Argument(p) == request[p].argument
Ids(p, type) == IdsOf(atLookup[p][type])

Handled(p, id) == \E i \in DOMAIN ran[p] : ran[p][i].id = id
Passes(p, id)  == \E i \in DOMAIN ran[p] : ran[p][i].id = id /\ ran[p][i].outcome = "ok"

\* The function was run and returned no error.
Worked(p) == TargetRan(p) /\ bare[p].error = Nil

Typed ==
    /\ metadata \in [Calls -> SUBSET {"userID", "role", "start"}]
    /\ audit \in [Calls -> Seq([user : BOOLEAN, status : {"SUCCESS", "FAILED"}])]
    /\ stale \subseteq expired
    /\ limit \in RetryLimits /\ attempt \in Nat

\* Neither the requests nor the wrappers of the calls change.
RequestInv ==
    /\ \E r \in Requests :
          request = [p \in Calls |->
              IF p = 1 \/ r \in RetryRequests THEN r ELSE Notification]
    /\ wrapper = [p \in Calls |-> WrapperOf[request[p].function]]

\* Attaching "confirm" leaves every function prepared.
SetupInv ==
    /\ Unshared(reg)
    /\ \A n \in Registered(reg) : Prepared(n, reg.chains[Lookup(reg, n)])
    /\ Lookup(reg, Name(1)) # NoChain

\* While a call runs, its chain stays what it was when it was looked up.
KeptInv(p) ==
    /\ Advised(p) =>
          /\ atLookup[p] = reg.chains[chain[p]]
          /\ Prepared(Name(p), atLookup[p])
    /\ pc[p] \in AdviceTypes => Range(todo[p]) \subseteq Range(atLookup[p][pc[p]])
    /\ p = 1 /\ pc[p] # "idle" => Advised(p)

\* How a handler or the target may have ended.
Expected(p, e) ==
    IF e.type = "target" THEN e.id = "target" /\ e.outcome = "ok"
    ELSE /\ Advised(p) /\ e.type \in AdviceTypes /\ e.id \in Ids(p, e.type)
         /\ \/ /\ e.outcome = "ok"
               /\ e.id = "validate" => Argument(p) # "invalid"
               /\ e.id = "authenticate" => Argument(p) \in Sessions \ stale
               /\ e.id = "authorize" => RoleOf[Argument(p)] = "admin"
               /\ e.id = "confirm" => Done(2)
            \/ /\ e.outcome = "error"
               /\ e.id \in {"validate", "authenticate", "authorize"}
               /\ e.id = "validate" => Argument(p) = "invalid"
            \/ /\ e.outcome = "panic"
               /\ e.id = "payment log" /\ Argument(p) = "short card"

ExpectedInv(p) == \A i \in DOMAIN ran[p] : Expected(p, ran[p][i])

\* Handlers leave the context alone; it has what the target left there.
AllOk(p) == \A i \in DOMAIN ran[p] : ran[p][i].outcome = "ok"

ContextInv(p) ==
    /\ AllOk(p) => inert[p]
    /\ pc[p] \in Body => ctx[p].panicValue = Nil
    /\ ctx[p].error \in {Nil, bare[p].error}
    /\ TargetRan(p) =>
          /\ bare[p].error \in ErrorsOf(request[p])
          /\ Wrapper(p).result => ctx[p].results # <<>>

\* The metadata tell which of the handlers that set them have passed.
MetadataInv(p) ==
    /\ "userID" \in metadata[p] <=> Passes(p, "authenticate")
    /\ "role" \in metadata[p] <=> Passes(p, "authenticate")
    /\ "start" \in metadata[p] <=> Passes(p, "timer start")

\* The monitor that reads the clock comes after the handler that sets it, also when
\* Before advice is cut short.
TimerInv(p) ==
    Advised(p) /\ pc[p] \notin {"found", "Before"} /\ "monitor" \in Ids(p, "After") =>
        Passes(p, "timer start")

\* AfterReturning advice lies behind a call whose function worked.
ReturningInv(p) ==
    Advised(p) /\ Worked(p) /\ pc[p] \notin {"completed", "AfterReturning"} =>
        RanAll(p, "AfterReturning") \/ Cut(p, "AfterReturning")

AuditInv(p) ==
    IF Handled(p, "audit")
    THEN Len(audit[p]) = 1 /\ (audit[p][1].user <=> Passes(p, "authenticate"))
    ELSE audit[p] = <<>>

PartInv(p) ==
    /\ KeptInv(p)
    /\ ExpectedInv(p)
    /\ ContextInv(p)
    /\ MetadataInv(p)
    /\ TimerInv(p)
    /\ ReturningInv(p)
    /\ AuditInv(p)

\* Call 2 is made by a handler of call 1 and by nobody else.
NotifyInv ==
    ~WithRetry /\ pc[2] # "idle" => TargetRan(1) /\ "confirm" \in Ids(1, "AfterReturning")

\* Where the main goroutine is.
SingleInv == ~WithRetry =>
    /\ attempt = 0
    /\ phase \in {"idle", "ready", "calling", "returned", "panicked"}
    /\ phase \in {"idle", "ready"} => \A p \in Calls : pc[p] = "idle"
    /\ phase \in {"returned", "panicked"} => Done(1)

\* The attempts so far have failed, but for the last one.
RetryInv == WithRetry =>
    /\ attempt <= limit + 1
    /\ phase \in {"sleep", "ready", "calling"} => attempt <= limit
    /\ phase = "idle" => attempt = 0
    /\ \A p \in 1..attempt : Done(p) /\ ~Worked(p)
    /\ \A p \in Calls : pc[p] # "idle" =>
          p \in 1..attempt \/ (p = Current /\ phase \in {"calling", "returned", "panicked"})
    /\ attempt > 0 /\ phase \in {"test", "sleep", "ready", "calling"} => lastErr # Nil
    /\ phase = "returned" =>
          IF lastErr = Nil THEN Current \in Calls /\ Done(Current) /\ Worked(Current)
          ELSE attempt = limit + 1 /\ \A p \in Calls : pc[p] # "idle" => p \in 1..attempt

MainInv == Typed /\ RequestInv /\ SetupInv /\ NotifyInv /\ SingleInv /\ RetryInv

EInv == SInv /\ OInv /\ MainInv /\ \A p \in Calls : PartInv(p)

-----------------------------------------------------------------------------
(* Requests.                                                               *)

LEMMA Functions3 ==
    /\ Range(Protected) = {"GetUserData", "DeleteUser", "UpdateSettings"}
    /\ Range(Audited) = {"DeleteUser", "UpdateSettings"}
<1>1. DOMAIN Protected = {1, 2, 3} /\ DOMAIN Audited = {1, 2}
    BY DEF Protected, Audited
<1>2. /\ Protected[1] = "GetUserData" /\ Protected[2] = "DeleteUser"
      /\ Protected[3] = "UpdateSettings"
      /\ Audited[1] = "DeleteUser" /\ Audited[2] = "UpdateSettings"
    BY DEF Protected, Audited
<1> QED
    BY <1>1, <1>2 DEF Range

LEMMA Requested ==
    ASSUME RequestInv, NEW p \in Calls
    PROVE  /\ 1 \in Calls /\ 2 \in Calls
           /\ request[p] \in Requests \cup {Notification}
           /\ Name(p) \in Names \ {EmptyName}
           /\ wrapper[p] = WrapperOf[Name(p)]
           /\ WithRetry => request[p] \in RetryRequests /\ request[p] = request[1]
           /\ ~WithRetry => (request[p] = Notification \/ p = 1)
           /\ ~WithRetry => request[2] = Notification
           /\ Name(p) = "CreateOrder" \/ Name(p) \in Range(Protected) => p = 1 /\ ~WithRetry
           /\ Name(p) = "CreateOrder" => Argument(p) \in {"valid", "invalid"}
           /\ Argument(p) \in Sessions => Name(p) \in Range(Protected)
<1>1. PICK r \in Requests :
          request = [q \in Calls |-> IF q = 1 \/ r \in RetryRequests THEN r ELSE Notification]
    BY DEF RequestInv
<1>2. 1 \in Calls /\ 2 \in Calls
    BY ExamplesAssumption
<1>3. /\ request[1] = r
      /\ request[2] = (IF r \in RetryRequests THEN r ELSE Notification)
      /\ request[p] = (IF p = 1 \/ r \in RetryRequests THEN r ELSE Notification)
    BY <1>1, <1>2
<1>4. request[p] \in Requests \cup {Notification}
    BY <1>3
<1>5. Name(p) \in Names \ {EmptyName}
    BY <1>4, ExamplesAssumption DEF Name
<1>6. wrapper[p] = WrapperOf[Name(p)]
    BY DEF RequestInv, Name
<1>7. \A s \in RetryRequests :
          s.function \in {"SendEmail", "ProcessPayment"} /\ s.argument \in {"message", "card", "short card"}
    BY DEF RetryRequests
<1>8. Notification.function = "SendNotification" /\ Notification.argument = "message"
    BY DEF Notification
<1>9. \A s \in BasicRequests :
          s.function \in {"GetUser", "CreateOrder", "ValidateUser"} /\ s.argument \in {"valid", "invalid"}
    BY DEF BasicRequests
<1>10. \A s \in AuthRequests :
          s.function \in Range(Protected) /\ s.argument \in Tokens
    BY DEF AuthRequests
<1>11. Sessions = {"valid_token", "user_token", "expired_token"}
    BY DEF Sessions, RoleOf
<1>12. r \in BasicRequests \/ r \in AuthRequests \/ r \in RetryRequests
    BY DEF Requests
<1> USE <1>2, <1>3, <1>7, <1>8, <1>9, <1>10, <1>12, Functions3 DEF WithRetry, Name, Argument
<1>13. Name(p) = "CreateOrder" \/ Name(p) \in Range(Protected) => p = 1 /\ ~WithRetry
    OBVIOUS
<1>14. Name(p) = "CreateOrder" => Argument(p) \in {"valid", "invalid"}
    OBVIOUS
<1>15. Argument(p) \in Sessions => Name(p) \in Range(Protected)
    BY <1>11
<1> QED
    BY <1>4, <1>5, <1>6, <1>13, <1>14, <1>15

\* The initial registries are prepared.
LEMMA InitSetup ==
    ASSUME ExampleInit
    PROVE  Typed /\ RequestInv /\ SetupInv
<1>1. /\ reg \in InitialRegistries /\ Lookup(reg, Name(1)) # NoChain
      /\ metadata = [p \in Calls |-> {}] /\ audit = [p \in Calls |-> <<>>] /\ stale = {}
      /\ limit \in RetryLimits /\ attempt = 0
    BY DEF ExampleInit, Init, RetryInit, Name
<1>2. RequestInv
    BY DEF ExampleInit, RequestInv
<1>3. <<>> \in Seq([user : BOOLEAN, status : {"SUCCESS", "FAILED"}])
    OBVIOUS
<1> QED
    BY <1>1, <1>2, <1>3, SetupAssumption DEF Typed, SetupInv

-----------------------------------------------------------------------------
(* What the history of a call tells.                                       *)

LEMMA AddsEntry ==
    ASSUME TypeOK, NEW p \in Calls, NEW e, Adds(p, e)
    PROVE  /\ \A id : Handled(p, id)' <=> Handled(p, id) \/ e.id = id
           /\ \A id : Passes(p, id)' <=> Passes(p, id) \/ (e.id = id /\ e.outcome = "ok")
           /\ AllOk(p)' <=> AllOk(p) /\ e.outcome = "ok"
           /\ \A i \in DOMAIN ran'[p] :
                 ran'[p][i] = e \/ \E j \in DOMAIN ran[p] : ran'[p][i] = ran[p][j]
<1> DEFINE n == Len(ran[p]) + 1
<1>1. ran[p] \in Seq(RunRecord) /\ Len(ran[p]) \in Nat /\ DOMAIN ran[p] = 1..Len(ran[p])
    BY DEF TypeOK
<1>2. ran'[p] = Append(ran[p], e)
    BY DEF Adds, TypeOK
<1>3. /\ DOMAIN ran'[p] = DOMAIN ran[p] \cup {n}
      /\ \A i \in DOMAIN ran[p] : ran'[p][i] = ran[p][i]
      /\ ran'[p][n] = e
    BY <1>1, <1>2 DEF Adds
<1> HIDE DEF n
<1> QED
    BY <1>3 DEF Handled, Passes, AllOk

LEMMA PassedAll ==
    ASSUME NEW p \in Calls, NEW type, RanAll(p, type), ~Cut(p, type), NEW id \in Ids(p, type)
    PROVE  Passes(p, id)
<1>1. PICK k \in DOMAIN atLookup[p][type] : atLookup[p][type][k].id = id
    BY DEF Ids, IdsOf, Range
<1>2. PICK i \in Runs(p, type) : ran[p][i].id = id
    BY <1>1 DEF RanAll
<1> QED
    BY <1>2 DEF Cut, Runs, Passes

\* A function that runs has all its Before advice behind it.
LEMMA BeforePassed ==
    ASSUME NEW p \in Calls, CallInv(p), Advised(p), TargetRan(p), NEW id \in Ids(p, "Before")
    PROVE  Passes(p, id)
BY PassedAll DEF CallInv, GuardInv, Passed

\* What precedes the handler at the head of the list has passed: it is not in the
\* rest of the list, which is sorted.
LEMMA HeadPreceded ==
    ASSUME TypeOK, NEW p \in Calls, CallInv(p), OrderInv(p), KeptInv(p),
           pc[p] = "Before", todo[p] # <<>>,
           NEW id \in Ids(p, "Before"), NEW others, Head(todo[p]).id \in others,
           Precedes(id, others, atLookup[p]["Before"])
    PROVE  Passes(p, id)
<1>1. PICK k \in DOMAIN atLookup[p]["Before"] : atLookup[p]["Before"][k].id = id
    BY DEF Ids, IdsOf, Range
<1>2. Covered(p, "Before", k) /\ ~Cut(p, "Before") /\ "Before" \in AdviceTypes
    BY <1>1 DEF CallInv, ListInv, AdviceTypes
<1>3. CASE \E i \in Runs(p, "Before") : ran[p][i].id = id
    BY <1>2, <1>3 DEF Cut, Runs, Passes
<1>4. ASSUME NEW m \in DOMAIN todo[p], todo[p][m].id = id
      PROVE  FALSE
    <2>1. 1 \in DOMAIN todo[p] /\ todo[p][1] = Head(todo[p]) /\ todo[p] \in Seq(Advice)
          /\ DOMAIN todo[p] = 1..Len(todo[p])
        BY ListType
    <2>2. todo[p][1] \in Range(atLookup[p]["Before"]) /\ todo[p][m] \in Range(atLookup[p]["Before"])
        BY <1>2, <1>4, <2>1 DEF KeptInv, Range
    <2>3. todo[p][m].priority > todo[p][1].priority
        BY <1>4, <2>1, <2>2 DEF Precedes
    <2>4. todo[p][m].priority \in Int /\ todo[p][1].priority \in Int
        <3>1. todo[p][m] \in Advice /\ todo[p][1] \in Advice
            BY <2>1
        <3>2. \A a \in Advice : a.priority \in Int
            BY DEF Advice
        <3> QED
            BY <3>1, <3>2
    <2>5. m # 1
        BY <2>3, <2>4
    <2>6. 1 < m
        BY <2>1, <2>5
    <2>7. todo[p][1].priority >= todo[p][m].priority
        BY <2>1, <2>6 DEF OrderInv, Descending
    <2> QED
        BY <2>3, <2>4, <2>7
<1> QED
    BY <1>1, <1>2, <1>3, <1>4 DEF Covered

\* AfterReturning advice is reached through the target: there is no Around advice.
LEMMA NoAround ==
    ASSUME NEW p \in Calls, KeptInv(p), ExpectedInv(p)
    PROVE  Runs(p, "Around") = {}
<1> SUFFICES ASSUME NEW i \in Runs(p, "Around")
             PROVE  FALSE
    OBVIOUS
<1>1. Expected(p, ran[p][i]) /\ ran[p][i].type = "Around"
    BY DEF Runs, ExpectedInv
<1>2. Advised(p) /\ ran[p][i].id \in Ids(p, "Around")
    BY <1>1 DEF Expected
<1>3. atLookup[p]["Around"] = <<>>
    BY <1>2 DEF KeptInv, Prepared
<1> QED
    BY <1>2, <1>3 DEF Ids, IdsOf, Range

LEMMA ReturningWorked ==
    ASSUME NEW p \in Calls, OutcomeInv(p), KeptInv(p), ExpectedInv(p),
           pc[p] = "AfterReturning"
    PROVE  Worked(p)
BY NoAround DEF OutcomeInv, SuccessInv, Succeeded, Worked

\* Where a handler of a prepared function can be.
LEMMA Placed ==
    ASSUME NEW p \in Calls, KeptInv(p), Advised(p), NEW type \in AdviceTypes,
           NEW id \in Ids(p, type)
    PROVE  /\ id \in {"validate", "authenticate", "authorize", "timer start", "payment log"}
                => type = "Before"
           /\ id \in {"audit", "monitor"} => type = "After"
           /\ id \in {"confirm", "success log"} => type = "AfterReturning"
           /\ id = "validate" => Name(p) = "CreateOrder"
           /\ id = "authenticate" => Name(p) \in Range(Protected)
           /\ id = "authorize" => Name(p) = "DeleteUser"
           /\ id = "audit" => Name(p) \in Range(Audited)
           /\ id = "confirm" => Name(p) = "CreateOrder"
           /\ id = "success log" => Name(p) \in Range(Protected)
<1>1. Prepared(Name(p), atLookup[p]) /\ id \in IdsOf(atLookup[p][type])
    BY DEF KeptInv, Ids
<1>2. /\ id \in {"validate", "authenticate", "authorize", "timer start", "payment log"}
            => type = "Before"
      /\ id \in {"audit", "monitor"} => type = "After"
      /\ id \in {"confirm", "success log"} => type = "AfterReturning"
    BY <1>1 DEF Prepared
<1>3. /\ id = "validate" => Name(p) = "CreateOrder"
      /\ id = "authenticate" => Name(p) \in Range(Protected)
      /\ id = "authorize" => Name(p) = "DeleteUser"
      /\ id = "audit" => Name(p) \in Range(Audited)
    BY <1>1, <1>2 DEF Prepared
<1>4. type = "AfterReturning" =>
          id \in (CASE Name(p) = "CreateOrder"       -> {"confirm"}
                    [] Name(p) \in Range(Protected) -> {"success log"}
                    [] OTHER                        -> {})
    BY <1>1 DEF Prepared
<1>5. Name(p) = "CreateOrder" => Name(p) \notin Range(Protected)
    BY Functions3
<1> QED
    BY <1>2, <1>3, <1>4, <1>5

\* Only three handlers return an error, and one panics.
LEMMA OnlyFailures ==
    ASSUME NEW p \in Calls, KeptInv(p), ExpectedInv(p), NEW i \in DOMAIN ran[p],
           ran[p][i].outcome # "ok"
    PROVE  /\ ran[p][i].type = "Before"
           /\ \/ ran[p][i].outcome = "error" /\ Name(p) = "CreateOrder" /\ Argument(p) = "invalid"
              \/ ran[p][i].outcome = "error" /\ Name(p) \in Range(Protected)
              \/ ran[p][i].outcome = "panic" /\ Argument(p) = "short card"
<1> DEFINE e == ran[p][i]
<1>1. Expected(p, e)
    BY DEF ExpectedInv
<1>2. /\ Advised(p) /\ e.type \in AdviceTypes /\ e.id \in Ids(p, e.type)
      /\ \/ e.outcome = "error" /\ e.id = "validate" /\ Argument(p) = "invalid"
         \/ e.outcome = "error" /\ e.id \in {"authenticate", "authorize"}
         \/ e.outcome = "panic" /\ e.id = "payment log" /\ Argument(p) = "short card"
    BY <1>1 DEF Expected
<1> HIDE DEF e
<1>3. "DeleteUser" \in Range(Protected)
    BY Functions3
<1>4. /\ e.type = "Before"
      /\ e.id = "validate" => Name(p) = "CreateOrder"
      /\ e.id \in {"authenticate", "authorize"} => Name(p) \in Range(Protected)
    BY <1>2, <1>3, Placed
<1> QED
    BY <1>2, <1>4 DEF e

\* A call that came back by a return, of a function that rejects nobody, has had no
\* failure at all; and its caller has what the function returned.
LEMMA ReturnedWell ==
    ASSUME IInv, NEW p \in Calls, OutcomeInv(p), PartInv(p), Done(p), ret[p].kind = "return",
           Name(p) \notin Range(Protected), Argument(p) # "invalid"
    PROVE  AllOk(p) /\ TargetRan(p) /\ ret[p] = bare[p]
<1>1. FatalRuns(p) = {}
    <2> SUFFICES ASSUME NEW i \in FatalRuns(p), ret[p] = Answer(ExitOf(ran[p][i]), Zero, Nil)
                 PROVE  FALSE
        BY DEF IInv, AnswerInv
    <2>1. ExitOf(ran[p][i]).kind \in {"panic", "goexit"}
        BY ExitKinds DEF FatalRuns
    <2> QED
        BY <2>1 DEF Answer
<1>2. AllOk(p)
    <2> SUFFICES ASSUME NEW i \in DOMAIN ran[p], ran[p][i].outcome # "ok"
                 PROVE  FALSE
        BY DEF AllOk
    <2>1. ran[p][i].outcome = "panic"
        BY OnlyFailures DEF PartInv
    <2> QED
        BY <1>1, <2>1 DEF FatalRuns, Fatal
<1>3. inert[p]
    BY <1>2 DEF PartInv, ContextInv
<1>4. TargetRan(p)
    BY <1>3 DEF OutcomeInv, InertInv, Early, Done
<1> QED
    BY <1>2, <1>3, <1>4 DEF OutcomeInv, ReturnInv

\* A call whose arguments nothing rejects has had no failure.
LEMMA AllWell ==
    ASSUME NEW p \in Calls, PartInv(p),
           Name(p) \notin Range(Protected), Argument(p) \notin {"invalid", "short card"}
    PROVE  AllOk(p)
BY OnlyFailures DEF AllOk, PartInv

LEMMA WellNoPanic ==
    ASSUME IInv, NEW p \in Calls, AllOk(p), Done(p), wrapper[p] \notin {"Wrap0R", "Wrap0RE"}
    PROVE  ret[p].kind = "return"
<1>1. FatalRuns(p) = {}
    BY DEF AllOk, FatalRuns, Fatal
<1> QED
    BY <1>1 DEF IInv, AnswerInv

-----------------------------------------------------------------------------
(* The steps of a program are steps of its calls.                          *)

LEMMA Outcomes == \A p, id : Outcome(p, id) \in {"ok", "error", "panic"}
BY DEF Outcome

LEMMA ExampleStepWoven ==
    ASSUME NEW p \in Calls
    PROVE  /\ RunHandler(p) => HandlerReturns(p) \/ HandlerFails(p) \/ HandlerRaises(p)
           /\ RunBusiness(p) => TargetReturns(p)
           /\ RunHandler(p) \/ RunBusiness(p) \/ Advance(p) => Step(p)
           /\ Notify(p) => Invoke(2, "SendNotification")
           /\ ExampleStep(p) => UNCHANGED <<request, expired, stale, retryVars>>
<1>1. RunHandler(p) => HandlerReturns(p) \/ HandlerFails(p) \/ HandlerRaises(p)
    <2> DEFINE o == Outcome(p, Head(todo[p]).id)
    <2>1. o = "ok" \/ o = "error" \/ o = "panic"
        BY Outcomes
    <2>2. RunHandler(p) => CASE o = "ok"    -> HandlerReturns(p)
                             [] o = "error" -> HandlerFails(p)
                             [] o = "panic" -> HandlerRaises(p)
        BY DEF RunHandler
    <2> HIDE DEF o
    <2> QED
        BY <2>1, <2>2
<1>2. RunBusiness(p) => TargetReturns(p)
    BY DEF RunBusiness
<1>3. RunHandler(p) \/ RunBusiness(p) \/ Advance(p) => Step(p)
    BY <1>1, <1>2 DEF Advance, Step
<1>4. Notify(p) => Invoke(2, "SendNotification")
    BY DEF Notify
<1>5. ExampleStep(p) => UNCHANGED <<request, expired, stale, retryVars>>
    BY DEF ExampleStep, RunHandler, Notify, RunBusiness, Advance, example
<1> QED
    BY <1>1, <1>2, <1>3, <1>4, <1>5

\* What a handler of p does, and where it leads.
Acts(p, e) ==
    /\ Adds(p, e)
    /\ pc[p] \in AdviceTypes /\ e.type = pc[p]
    /\ todo[p] # <<>> /\ e.id = Head(todo[p]).id
    /\ e.outcome = Outcome(p, e.id)
    /\ e.id = "confirm" => Done(2)
    /\ ctx'[p] = ctx[p] /\ bare'[p] = bare[p]
    /\ inert[p] /\ e.outcome = "ok" => inert'[p]
    /\ \/ e.outcome = "ok" /\ pc'[p] = pc[p] /\ todo'[p] = Tail(todo[p])
       \/ e.outcome # "ok" /\ pc'[p] = Unwind(pc[p])
    /\ metadata'[p] = IF e.outcome = "ok" THEN metadata[p] \cup Sets(e.id) ELSE metadata[p]
    /\ audit'[p] = IF e.id = "audit" THEN Append(audit[p], AuditRecord(p)) ELSE audit[p]

LEMMA HandlerActs ==
    ASSUME TypeOK, Typed, NEW p \in Calls, RunHandler(p)
    PROVE  \E e : Acts(p, e)
<1> DEFINE o == Outcome(p, Head(todo[p]).id)
<1>1. Call(p, o) /\ (IF o = "ok" THEN pc'[p] = pc[p] /\ todo'[p] = Tail(todo[p])
                                 ELSE pc'[p] = Unwind(pc[p]))
    <2>1. o = "ok" \/ o = "error" \/ o = "panic"
        BY Outcomes
    <2>2. CASE o = "ok"
        BY <2>2 DEF RunHandler, HandlerReturns, TypeOK
    <2>3. CASE o = "error"
        BY <2>3 DEF RunHandler, HandlerFails, Leave, Goto, TypeOK
    <2>4. CASE o = "panic"
        BY <2>4 DEF RunHandler, HandlerRaises, Leave, Goto, TypeOK
    <2> QED
        BY <2>1, <2>2, <2>3, <2>4
<1> HIDE DEF o
<1>2. PICK e : Adds(p, e) /\ e.type = pc[p] /\ e.outcome = o /\ e.id = Head(todo[p]).id
    BY <1>1, CallAdds
<1>3. pc[p] \in AdviceTypes /\ todo[p] # <<>> /\ bare' = bare /\ ctx' = ctx
    BY <1>1 DEF Call, RunHandler
<1>4. inert[p] /\ o = "ok" => inert'[p]
    <2>1. PICK c \in Touched(ctx[p]) :
              /\ ctx' = [ctx EXCEPT ![p] = c]
              /\ inert' = [inert EXCEPT ![p] = @ /\ o = "ok" /\ c = ctx[p]]
        BY <1>1 DEF Call
    <2>2. c = ctx[p]
        BY <1>3, <2>1 DEF TypeOK
    <2>3. inert'[p] = (inert[p] /\ o = "ok" /\ c = ctx[p])
        BY <2>1 DEF TypeOK
    <2> QED
        BY <2>2, <2>3
<1>5. /\ metadata'[p] = IF o = "ok" THEN metadata[p] \cup Sets(e.id) ELSE metadata[p]
      /\ audit'[p] = IF e.id = "audit" THEN Append(audit[p], AuditRecord(p)) ELSE audit[p]
      /\ e.id = "confirm" => Done(2)
    BY <1>2 DEF RunHandler, Typed, o
<1> QED
    BY <1>1, <1>2, <1>3, <1>4, <1>5 DEF Acts, o

-----------------------------------------------------------------------------
(* The steps of a call keep its part of the invariant.                     *)

\* Another call or the main goroutine takes a step that leaves q alone.
Same(q) ==
    /\ Apart(q)
    /\ metadata'[q] = metadata[q] /\ audit'[q] = audit[q]
    /\ request' = request /\ wrapper' = wrapper
    /\ Advised(q) => reg'.chains[chain[q]] = reg.chains[chain[q]]
    /\ stale' = stale \/ ~Handled(q, "authenticate")
    /\ Done(2) => Done(2)'

LEMMA SameKept ==
    ASSUME NEW q \in Calls, Same(q), PartInv(q)
    PROVE  PartInv(q)'
<1>1. /\ pc'[q] = pc[q] /\ chain'[q] = chain[q] /\ ctx'[q] = ctx[q] /\ todo'[q] = todo[q]
      /\ ran'[q] = ran[q] /\ atLookup'[q] = atLookup[q]
      /\ inert'[q] = inert[q] /\ bare'[q] = bare[q]
      /\ metadata'[q] = metadata[q] /\ audit'[q] = audit[q]
      /\ request' = request /\ wrapper' = wrapper
    BY DEF Same, Apart, Untouched
<1>2. /\ Advised(q)' = Advised(q) /\ Name(q)' = Name(q) /\ Argument(q)' = Argument(q)
      /\ \A t : Ids(q, t)' = Ids(q, t)
      /\ \A id : Handled(q, id)' = Handled(q, id)
      /\ \A id : Passes(q, id)' = Passes(q, id)
      /\ AllOk(q)' = AllOk(q) /\ TargetRan(q)' = TargetRan(q) /\ Worked(q)' = Worked(q)
      /\ \A t : RanAll(q, t)' = RanAll(q, t)
      /\ \A t : Cut(q, t)' = Cut(q, t)
    BY <1>1 DEF Advised, Name, Argument, Ids, Handled, Passes, AllOk, TargetRan, Worked, Runs,
                RanAll, Cut
<1>3. KeptInv(q)'
    BY <1>1, <1>2 DEF PartInv, KeptInv, Same
<1>4. ExpectedInv(q)'
    <2> SUFFICES ASSUME NEW i \in DOMAIN ran[q]
                 PROVE  Expected(q, ran[q][i])'
        BY <1>1 DEF ExpectedInv
    <2>1. Expected(q, ran[q][i])
        BY DEF PartInv, ExpectedInv
    <2>2. ran[q][i].id = "authenticate" => stale' = stale
        BY DEF Same, Handled
    <2>3. Done(2) => Done(2)'
        BY DEF Same
    <2> QED
        BY <1>1, <1>2, <2>1, <2>2, <2>3 DEF Expected
<1>5. ContextInv(q)'
    BY <1>1, <1>2 DEF PartInv, ContextInv, Wrapper
<1>6. MetadataInv(q)' /\ TimerInv(q)' /\ ReturningInv(q)' /\ AuditInv(q)'
    BY <1>1, <1>2 DEF PartInv, MetadataInv, TimerInv, ReturningInv, AuditInv
<1> QED
    BY <1>3, <1>4, <1>5, <1>6 DEF PartInv

LEMMA PartsOf ==
    ASSUME EInv, NEW p \in Calls
    PROVE  /\ TypeOK /\ IInv /\ CallInv(p) /\ OrderInv(p) /\ OutcomeInv(p)
           /\ PartInv(p) /\ KeptInv(p) /\ ExpectedInv(p)
           /\ Typed /\ RequestInv /\ SetupInv
           /\ 1 \in Calls /\ 2 \in Calls
BY ExamplesAssumption DEF EInv, SInv, OInv, IInv, MainInv, PartInv

\* The handler about to run comes from the chain that was looked up.
LEMMA HeadListed ==
    ASSUME EInv, NEW p \in Calls, pc[p] \in AdviceTypes, todo[p] # <<>>
    PROVE  /\ Advised(p) /\ Prepared(Name(p), atLookup[p])
           /\ Head(todo[p]).id \in Ids(p, pc[p])
<1>1. Advised(p)
    BY PartsOf DEF CallInv, ChainInv, Woven
<1>2. 1 \in DOMAIN todo[p] /\ Head(todo[p]) = todo[p][1]
    BY ListType, PartsOf
<1>3. Head(todo[p]) \in Range(atLookup[p][pc[p]])
    BY <1>2, PartsOf DEF KeptInv, Range
<1> QED
    BY <1>1, <1>3, PartsOf DEF KeptInv, Ids, IdsOf

\* The notification that the handler "confirm" waits for does not fail.
LEMMA Notified ==
    ASSUME EInv, ~WithRetry, Done(2)
    PROVE  ret[2].kind = "return"
<1>1. /\ 2 \in Calls /\ RequestInv /\ PartInv(2) /\ IInv
    BY PartsOf, ExamplesAssumption
<1>2. Name(2) = "SendNotification" /\ Argument(2) = "message" /\ wrapper[2] = WrapperOf[Name(2)]
    BY <1>1, Requested DEF Name, Argument, Notification
<1>3. wrapper[2] = "Wrap2"
    BY <1>2 DEF WrapperOf
<1>4. AllOk(2)
    BY <1>1, <1>2, AllWell, Functions3
<1> QED
    BY <1>1, <1>3, <1>4, WellNoPanic

\* No handler trips.
LEMMA NoTrip ==
    ASSUME EInv, NEW p \in Calls, NEW e, Acts(p, e)
    PROVE  /\ e.id = "confirm" => ctx[p].results # <<>> /\ ret[2].kind # "panic"
           /\ e.id = "authorize" => {"userID", "role"} \subseteq metadata[p]
           /\ e.id = "success log" => "userID" \in metadata[p]
           /\ e.id = "monitor" => "start" \in metadata[p]
<1>1. /\ Advised(p) /\ Prepared(Name(p), atLookup[p]) /\ e.id \in Ids(p, pc[p])
      /\ pc[p] \in AdviceTypes /\ todo[p] # <<>> /\ e.id = Head(todo[p]).id
    BY HeadListed DEF Acts
<1>2. /\ TypeOK /\ IInv /\ CallInv(p) /\ OrderInv(p) /\ OutcomeInv(p) /\ PartInv(p)
      /\ KeptInv(p) /\ ExpectedInv(p) /\ RequestInv
    BY PartsOf
<1>3. "authenticate" \in Ids(p, "Before") <=> Name(p) \in Range(Protected)
    BY <1>1 DEF Prepared, Ids
<1>4. ASSUME e.id = "confirm"
      PROVE  ctx[p].results # <<>> /\ ret[2].kind # "panic"
    <2>1. pc[p] = "AfterReturning" /\ Name(p) = "CreateOrder"
        BY <1>1, <1>2, <1>4, Placed
    <2>2. TargetRan(p)
        BY <1>2, <2>1, ReturningWorked DEF Worked
    <2>3. ~WithRetry /\ wrapper[p] = WrapperOf[Name(p)]
        BY <1>2, <2>1, Requested
    <2>4. wrapper[p] = "Wrap2RE"
        BY <2>1, <2>3 DEF WrapperOf
    <2>5. Wrapper(p).result
        BY <2>4 DEF Wrapper, Wrappers, Wrap2RE, Closure
    <2>6. ret[2].kind = "return"
        BY <1>4, <2>3, Notified DEF Acts
    <2> QED
        BY <1>2, <2>2, <2>5, <2>6 DEF PartInv, ContextInv
<1>5. ASSUME e.id = "authorize"
      PROVE  {"userID", "role"} \subseteq metadata[p]
    <2>1. pc[p] = "Before" /\ Name(p) = "DeleteUser"
        BY <1>1, <1>2, <1>5, Placed
    <2>2. "authenticate" \in Ids(p, "Before")
        BY <1>3, <2>1, Functions3
    <2>3. Precedes("authenticate", {"authorize"}, atLookup[p]["Before"])
        BY <1>1 DEF Prepared
    <2>4. Passes(p, "authenticate")
        BY <1>1, <1>2, <1>5, <2>1, <2>2, <2>3, HeadPreceded
    <2> QED
        BY <1>2, <2>4 DEF PartInv, MetadataInv
<1>6. ASSUME e.id = "success log"
      PROVE  "userID" \in metadata[p]
    <2>1. pc[p] = "AfterReturning" /\ Name(p) \in Range(Protected)
        BY <1>1, <1>2, <1>6, Placed
    <2>2. TargetRan(p)
        BY <1>2, <2>1, ReturningWorked DEF Worked
    <2>3. Passes(p, "authenticate")
        BY <1>1, <1>2, <1>3, <2>1, <2>2, BeforePassed
    <2> QED
        BY <1>2, <2>3 DEF PartInv, MetadataInv
<1>7. ASSUME e.id = "monitor"
      PROVE  "start" \in metadata[p]
    <2>1. pc[p] = "After" /\ "monitor" \in Ids(p, "After")
        BY <1>1, <1>2, <1>7, Placed
    <2>2. Passes(p, "timer start")
        BY <1>1, <1>2, <2>1 DEF PartInv, TimerInv
    <2> QED
        BY <1>2, <2>2 DEF PartInv, MetadataInv
<1> QED
    BY <1>4, <1>5, <1>6, <1>7

\* So a handler ends as expected.
LEMMA ActExpected ==
    ASSUME EInv, NEW p \in Calls, NEW e, Acts(p, e)
    PROVE  Expected(p, e)
<1>1. /\ Advised(p) /\ e.id \in Ids(p, e.type) /\ e.type \in AdviceTypes /\ e.type # "target"
    BY HeadListed DEF Acts, AdviceTypes
<1>2. stale \subseteq expired /\ (e.id = "confirm" => Done(2)) /\ e.outcome = Outcome(p, e.id)
    BY PartsOf DEF Typed, Acts
<1>3. CASE e.id = "validate"
    BY <1>1, <1>2, <1>3 DEF Outcome, Expected, Argument
<1>4. CASE e.id = "confirm"
    BY <1>1, <1>2, <1>4, NoTrip DEF Outcome, Expected
<1>5. CASE e.id = "authenticate"
    BY <1>1, <1>2, <1>5 DEF Outcome, Expected, Argument, Validates
<1>6. CASE e.id = "authorize"
    BY <1>1, <1>2, <1>6, NoTrip DEF Outcome, Expected, Argument
<1>7. CASE e.id = "success log" \/ e.id = "monitor"
    BY <1>1, <1>2, <1>7, NoTrip DEF Outcome, Expected
<1>8. CASE e.id = "payment log"
    BY <1>1, <1>2, <1>8 DEF Outcome, Expected, Argument
<1>9. CASE e.id \notin {"validate", "confirm", "authenticate", "authorize", "success log",
                        "monitor", "payment log"}
    BY <1>1, <1>2, <1>9 DEF Outcome, Expected
<1> QED
    BY <1>3, <1>4, <1>5, <1>6, <1>7, <1>8, <1>9

\* What is expected of a history stays so.
LEMMA StaysExpected ==
    ASSUME NEW p \in Calls, NEW x, Expected(p, x), UNCHANGED <<chain, atLookup, request, stale>>,
           Done(2) => Done(2)'
    PROVE  Expected(p, x)'
<1>1. /\ Advised(p)' = Advised(p) /\ Argument(p)' = Argument(p)
      /\ \A t : Ids(p, t)' = Ids(p, t)
    BY DEF Advised, Argument, Ids
<1> QED
    BY <1>1 DEF Expected

LEMMA HistoryExpected ==
    ASSUME TypeOK, NEW p \in Calls, NEW e, Adds(p, e), ExpectedInv(p), Expected(p, e),
           UNCHANGED <<request, stale>>, Done(2) => Done(2)'
    PROVE  ExpectedInv(p)'
<1>1. UNCHANGED <<chain, atLookup>>
    BY DEF Adds, fixed
<1> SUFFICES ASSUME NEW i \in DOMAIN ran'[p]
             PROVE  Expected(p, ran[p][i])'
    BY DEF ExpectedInv
<1>2. Expected(p, e)'
    BY <1>1, StaysExpected
<1>3. \A j \in DOMAIN ran[p] : Expected(p, ran[p][j])
    BY DEF ExpectedInv
<1>4. ran'[p][i] = e \/ \E j \in DOMAIN ran[p] : ran'[p][i] = ran[p][j]
    BY AddsEntry
<1> DEFINE x == ran[p][i]
<1>5. CASE ran'[p][i] = e
    BY <1>2, <1>5 DEF Expected, Advised, Ids, Argument, Done
<1>6. ASSUME NEW j \in DOMAIN ran[p], ran'[p][i] = ran[p][j]
      PROVE  Expected(p, ran[p][i])'
    <2>1. PICK y : y = ran[p][j]
        OBVIOUS
    <2>2. Expected(p, y)'
        BY <1>1, <1>3, <2>1, StaysExpected
    <2> QED
        BY <1>6, <2>1, <2>2 DEF Expected, Advised, Ids, Argument, Done
<1> QED
    BY <1>4, <1>5, <1>6

LEMMA DoneStays ==
    ASSUME TypeOK, NEW p \in Calls, Step(p) \/ \E name \in Names : Invoke(p, name), NEW q \in Calls
    PROVE  /\ Done(q) => Done(q)' /\ q # p
           /\ pc[q] # "idle" => pc'[q] # "idle"
           /\ q # p => Untouched(q)
<1>1. q # p => Untouched(q)
    BY OthersApart DEF Apart
<1>2. ~Done(p) /\ pc'[p] # "idle"
    <2> USE DEF TypeOK, Done, Goto, Load, Leave, AdviceTypes
    <2>1. CASE StartBefore(p) \/ FinishBefore(p) \/ FinishAround(p) \/ Complete(p) \/ Recover(p)
               \/ StartAfter(p) \/ Epilogue(p)
        BY <2>1 DEF StartBefore, FinishBefore, FinishAround, Complete, Recover, StartAfter, Epilogue
    <2>2. CASE FinishList(p) \/ HandlerReturns(p) \/ HandlerFails(p) \/ HandlerRaises(p)
               \/ HandlerExits(p)
        BY <2>2, UnwindType DEF FinishList, HandlerReturns, HandlerFails, HandlerRaises,
                                HandlerExits, Call
    <2>3. CASE TargetReturns(p) \/ TargetPanics(p) \/ TargetExits(p)
        BY <2>3, UnwindType DEF TargetReturns, TargetPanics, TargetExits, TargetThrows, RunTarget
    <2>4. CASE \E name \in Names : Invoke(p, name)
        BY <2>4 DEF Invoke
    <2> QED
        BY <2>1, <2>2, <2>3, <2>4 DEF Step
<1> QED
    BY <1>1, <1>2 DEF Untouched, Done

LEMMA HandlerKeeps ==
    ASSUME EInv, NEW p \in Calls, RunHandler(p)
    PROVE  PartInv(p)'
<1>1. /\ TypeOK /\ IInv /\ CallInv(p) /\ OrderInv(p) /\ OutcomeInv(p) /\ PartInv(p)
      /\ KeptInv(p) /\ ExpectedInv(p) /\ RequestInv /\ Typed /\ 2 \in Calls
    BY PartsOf
<1>2. PICK e : Acts(p, e)
    BY <1>1, HandlerActs
<1>3. Expected(p, e) /\ Adds(p, e) /\ e.type = pc[p] /\ pc[p] \in AdviceTypes
    BY <1>2, ActExpected DEF Acts
<1>4. UNCHANGED <<reg, chain, atLookup, wrapper, request, stale>>
    BY <1>3 DEF RunHandler, Adds, fixed
<1>5. Done(2) => Done(2)'
    BY <1>1, ExampleStepWoven, DoneStays
<1>6. /\ \A id : Handled(p, id)' <=> Handled(p, id) \/ e.id = id
      /\ \A id : Passes(p, id)' <=> Passes(p, id) \/ (e.id = id /\ e.outcome = "ok")
      /\ AllOk(p)' <=> AllOk(p) /\ e.outcome = "ok"
    BY <1>1, <1>3, AddsEntry
<1>7. /\ Advised(p) /\ Prepared(Name(p), atLookup[p]) /\ e.id \in Ids(p, pc[p])
      /\ todo[p] # <<>> /\ e.id = Head(todo[p]).id
    BY <1>2, HeadListed DEF Acts
<1>8. /\ Advised(p)' /\ Name(p)' = Name(p) /\ Argument(p)' = Argument(p)
      /\ \A t : Ids(p, t)' = Ids(p, t)
      /\ atLookup'[p] = atLookup[p]
    BY <1>4, <1>7 DEF Advised, Name, Argument, Ids
<1>9. \/ e.outcome = "ok" /\ pc'[p] = pc[p] /\ todo'[p] = Tail(todo[p])
      \/ e.outcome # "ok" /\ pc'[p] = Unwind(pc[p]) /\ pc'[p] \in {"cleanup", "epilogue", "recover"}
    BY <1>2, UnwindType DEF Acts
<1>10. /\ \A t : RanAll(p, t) => RanAll(p, t)'
       /\ \A t : Cut(p, t)' <=> (Cut(p, t) \/ (t = e.type /\ e.outcome # "ok"))
       /\ TargetRan(p)' = TargetRan(p)
    BY <1>1, <1>3, AddsRecord DEF AdviceTypes
<1>11. KeptInv(p)'
    <2>1. pc'[p] \in AdviceTypes => pc'[p] = pc[p] /\ Range(todo'[p]) \subseteq Range(todo[p])
        <3>1. CASE e.outcome = "ok"
            <4>1. todo[p] \in Seq(Advice) /\ todo'[p] = Tail(todo[p]) /\ pc'[p] = pc[p]
                BY <1>1, <1>9, <3>1 DEF TypeOK
            <4>2. \A m \in DOMAIN Tail(todo[p]) :
                      m + 1 \in DOMAIN todo[p] /\ Tail(todo[p])[m] = todo[p][m + 1]
                BY <1>7, <4>1
            <4> QED
                BY <4>1, <4>2 DEF Range
        <3>2. CASE e.outcome # "ok"
            BY <1>9, <3>2 DEF AdviceTypes
        <3> QED
            BY <3>1, <3>2
    <2>2. Prepared(Name(p), atLookup[p])'
        BY <1>7, <1>8, <1>4 DEF Name
    <2>3. atLookup'[p] = reg'.chains[chain'[p]]
        BY <1>1, <1>4, <1>7 DEF KeptInv
    <2>4. pc'[p] \in AdviceTypes => Range(todo'[p]) \subseteq Range(atLookup'[p][pc'[p]])
        BY <1>1, <1>4, <1>3, <2>1 DEF KeptInv
    <2> QED
        BY <1>8, <2>2, <2>3, <2>4 DEF KeptInv
<1>12. ExpectedInv(p)'
    BY <1>1, <1>3, <1>4, <1>5, HistoryExpected
<1>13. ContextInv(p)'
    <2>1. pc'[p] \in Body => pc[p] \in Body
        BY <1>9 DEF Body, Early
    <2>2. Wrapper(p)' = Wrapper(p)
        BY <1>4 DEF Wrapper
    <2>3. ctx'[p] = ctx[p] /\ bare'[p] = bare[p] /\ (inert[p] /\ e.outcome = "ok" => inert'[p])
        BY <1>2 DEF Acts
    <2> QED
        BY <1>1, <1>4, <1>6, <1>10, <2>1, <2>2, <2>3 DEF PartInv, ContextInv
<1>14. MetadataInv(p)'
    <2>1. metadata'[p] = IF e.outcome = "ok" THEN metadata[p] \cup Sets(e.id) ELSE metadata[p]
        BY <1>2 DEF Acts
    <2>2. /\ "userID" \in Sets(e.id) <=> e.id = "authenticate"
          /\ "role" \in Sets(e.id) <=> e.id = "authenticate"
          /\ "start" \in Sets(e.id) <=> e.id = "timer start"
        BY DEF Sets
    <2> QED
        BY <1>1, <1>6, <2>1, <2>2 DEF PartInv, MetadataInv
<1>15. TimerInv(p)'
    <2> SUFFICES ASSUME pc'[p] \notin {"found", "Before"}, "monitor" \in Ids(p, "After")
                 PROVE  Passes(p, "timer start")
        BY <1>6, <1>8 DEF TimerInv
    <2>1. CASE pc[p] = "Before"
        <3>1. e.outcome # "ok"
            BY <1>9, <2>1
        <3>2. e.id # "timer start"
            BY <1>2, <3>1 DEF Acts, Outcome
        <3>3. /\ "timer start" \in Ids(p, "Before")
              /\ Precedes("timer start", Ids(p, "Before") \ {"timer start"}, atLookup[p]["Before"])
            BY <1>7 DEF Prepared, Ids
        <3> QED
            BY <1>1, <1>7, <2>1, <3>2, <3>3, HeadPreceded
    <2>2. CASE pc[p] # "Before"
        <3>1. pc[p] \notin {"found", "Before"}
            BY <1>3, <2>2 DEF AdviceTypes
        <3> QED
            BY <1>1, <1>7, <3>1 DEF PartInv, TimerInv
    <2> QED
        BY <2>1, <2>2
<1>16. ReturningInv(p)'
    <2> SUFFICES ASSUME Worked(p)', pc'[p] \notin {"completed", "AfterReturning"}
                 PROVE  RanAll(p, "AfterReturning")' \/ Cut(p, "AfterReturning")'
        BY DEF ReturningInv
    <2>1. Worked(p)
        BY <1>2, <1>10 DEF Worked, Acts
    <2>2. CASE pc[p] = "AfterReturning"
        BY <1>3, <1>9, <1>10, <2>2
    <2>3. CASE pc[p] # "AfterReturning"
        <3>1. pc[p] \notin {"completed", "AfterReturning"}
            BY <1>3, <2>3 DEF AdviceTypes
        <3> QED
            BY <1>1, <1>7, <1>10, <2>1, <3>1 DEF PartInv, ReturningInv
    <2> QED
        BY <2>2, <2>3
<1>17. AuditInv(p)'
    <2>1. CASE e.id = "audit"
        <3>1. pc[p] = "After"
            BY <1>1, <1>3, <1>7, <2>1, Placed
        <3>2. ~Handled(p, "audit")
            <4> SUFFICES ASSUME NEW i \in DOMAIN ran[p], ran[p][i].id = "audit"
                         PROVE  FALSE
                BY DEF Handled
            <4>1. Expected(p, ran[p][i])
                BY <1>1 DEF ExpectedInv
            <4>2. ran[p][i].type = "After"
                BY <1>1, <4>1, Placed DEF Expected
            <4>3. i \in Runs(p, pc[p]) /\ 1 \in DOMAIN todo[p] /\ Head(todo[p]) = todo[p][1]
                BY <1>1, <1>7, <3>1, <4>2, ListType DEF Runs
            <4> QED
                BY <1>1, <1>3, <1>7, <2>1, <4>3 DEF OrderInv
        <3>3. audit[p] = <<>> /\ audit'[p] = Append(audit[p], AuditRecord(p))
            BY <1>1, <1>2, <2>1, <3>2 DEF PartInv, AuditInv, Acts
        <3>4. Len(audit'[p]) = 1 /\ audit'[p][1] = AuditRecord(p)
            BY <3>3
        <3>5. AuditRecord(p).user <=> "userID" \in metadata[p]
            BY DEF AuditRecord
        <3>6. Passes(p, "authenticate")' <=> Passes(p, "authenticate")
            BY <1>6, <2>1
        <3>7. "userID" \in metadata[p] <=> Passes(p, "authenticate")
            BY <1>1 DEF PartInv, MetadataInv
        <3>8. audit'[p][1].user <=> Passes(p, "authenticate")'
            BY <3>4, <3>5, <3>6, <3>7, Zenon
        <3>9. Handled(p, "audit")'
            BY <1>6, <2>1
        <3> QED
            BY <3>4, <3>8, <3>9 DEF AuditInv
    <2>2. CASE e.id # "audit"
        <3>1. audit'[p] = audit[p] /\ (Handled(p, "audit")' <=> Handled(p, "audit"))
            BY <1>2, <1>6, <2>2 DEF Acts
        <3>2. Handled(p, "audit") => e.id # "authenticate"
            <4> SUFFICES ASSUME NEW i \in DOMAIN ran[p], ran[p][i].id = "audit",
                                e.id = "authenticate"
                         PROVE  FALSE
                BY DEF Handled
            <4>1. pc[p] = "Before"
                BY <1>1, <1>3, <1>7, Placed
            <4>2. Expected(p, ran[p][i])
                BY <1>1 DEF ExpectedInv
            <4>3. ran[p][i].type = "After"
                BY <1>1, <4>2, Placed DEF Expected
            <4> QED
                BY <1>1, <4>1, <4>3 DEF CallInv, FreshInv, NotYetAfter, Runs
        <3>3. Handled(p, "audit") => (Passes(p, "authenticate")' <=> Passes(p, "authenticate"))
            BY <1>6, <3>2
        <3>4. AuditInv(p)
            BY <1>1 DEF PartInv
        <3> QED
            BY <3>1, <3>3, <3>4 DEF AuditInv
    <2> QED
        BY <2>1, <2>2
<1> QED
    BY <1>11, <1>12, <1>13, <1>14, <1>15, <1>16, <1>17 DEF PartInv

\* The target is run.
LEMMA BusinessActs ==
    ASSUME TypeOK, NEW p \in Calls, OutcomeInv(p), ~TargetRan(p), RunBusiness(p)
    PROVE  \E e :
              /\ Adds(p, e) /\ e.type = "target" /\ e.id = "target" /\ e.outcome = "ok"
              /\ pc[p] \in {"target", "bare"} /\ todo' = todo /\ inert' = inert
              /\ pc'[p] = IF pc[p] = "bare" THEN "epilogue" ELSE "completed"
              /\ bare'[p].error \in ErrorsOf(request[p])
              /\ ctx'[p].panicValue = ctx[p].panicValue
              /\ ctx[p].error \in {Nil, bare[p].error} => ctx'[p].error \in {Nil, bare'[p].error}
              /\ Wrapper(p).result => ctx'[p].results # <<>>
<1>1. PICK r \in (IF Wrapper(p).result THEN TargetValues ELSE {Zero}),
           err \in (IF Wrapper(p).error THEN TargetErrors \cup {Nil} ELSE {Nil}) :
          /\ RunTarget(p, "return", Answer(Returned, r, err))
          /\ ctx' = [ctx EXCEPT ![p] = Stored(p, @, r, err)]
          /\ Goto(p, IF pc[p] = "bare" THEN "epilogue" ELSE "completed")
    BY DEF RunBusiness, TargetReturns
<1> DEFINE e == [type |-> "target", priority |-> 0, id |-> "target", outcome |-> "ok"]
<1>2. Adds(p, e)
    BY <1>1 DEF RunTarget, Record, Adds, RunRecord, Phases
<1>3. e.type = "target" /\ e.id = "target" /\ e.outcome = "ok"
    OBVIOUS
<1> HIDE DEF e
<1>4. /\ pc[p] \in {"target", "bare"} /\ todo' = todo /\ inert' = inert
      /\ pc'[p] = IF pc[p] = "bare" THEN "epilogue" ELSE "completed"
      /\ bare'[p].error \in ErrorsOf(request[p]) /\ bare'[p].error = err
      /\ ctx'[p] = Stored(p, ctx[p], r, err)
    BY <1>1 DEF RunBusiness, RunTarget, Goto, TypeOK, Answer
<1>5. r \in ResultValues /\ ctx[p] \in ContextRecord(ResultValues, ErrorValues, PanicValues)
    BY DEF ResultValues, TypeOK
<1>6. /\ Stored(p, ctx[p], r, err).error = IF Wrapper(p).error THEN err ELSE ctx[p].error
      /\ GetResult(Stored(p, ctx[p], r, err), 0) =
            IF Wrapper(p).result THEN r ELSE GetResult(ctx[p], 0)
    BY <1>5, StoredContext
<1>7. Stored(p, ctx[p], r, err).panicValue = ctx[p].panicValue
    <2> DEFINE c == ctx[p]
               d == SetResult(c, 0, r)
    <2>1. d \in ContextRecord(ResultValues, ErrorValues, PanicValues)
        BY <1>5, ContextType
    <2>2. d.panicValue = c.panicValue
        <3> DEFINE f == [i \in 1..(IF 0 < Len(c.results) THEN Len(c.results) ELSE 0 + 1) |->
                            CASE i = 0 + 1 -> r
                              [] i # 0 + 1 /\ i <= Len(c.results) -> c.results[i]
                              [] OTHER -> Nil]
        <3>1. d = [c EXCEPT !.results = f]
            BY DEF SetResult
        <3> HIDE DEF f
        <3> QED
            BY <1>5, <3>1 DEF ContextRecord
    <2> HIDE DEF c, d
    <2>3. Stored(p, c, r, err) \in {c, d, [c EXCEPT !.error = err], [d EXCEPT !.error = err]}
        BY DEF Stored, d
    <2>4. c \in ContextRecord(ResultValues, ErrorValues, PanicValues)
        BY <1>5 DEF c
    <2>5. Stored(p, c, r, err).panicValue = c.panicValue
        BY <2>1, <2>2, <2>3, <2>4 DEF ContextRecord
    <2> QED
        BY <2>5 DEF c
<1>8. Wrapper(p).result => ctx'[p].results # <<>>
    <2> SUFFICES ASSUME Wrapper(p).result, ctx'[p].results = <<>>
                 PROVE  FALSE
        OBVIOUS
    <2>1. GetResult(ctx'[p], 0) = r
        BY <1>4, <1>6
    <2>2. GetResult(ctx'[p], 0) = Nil
        BY DEF GetResult
    <2> QED
        BY <2>1, <2>2, WeaveAssumption
<1>9. ctx[p].error \in {Nil, bare[p].error} => ctx'[p].error \in {Nil, bare'[p].error}
    <2>1. bare[p].error = Nil
        BY DEF OutcomeInv, BareInv
    <2> QED
        BY <1>4, <1>6, <2>1
<1> QED
    BY <1>2, <1>3, <1>4, <1>7, <1>8, <1>9

LEMMA BusinessKeeps ==
    ASSUME EInv, NEW p \in Calls, RunBusiness(p)
    PROVE  PartInv(p)'
<1>1. /\ TypeOK /\ IInv /\ CallInv(p) /\ OutcomeInv(p) /\ PartInv(p)
      /\ KeptInv(p) /\ ExpectedInv(p) /\ 2 \in Calls
    BY PartsOf
<1>2. pc[p] \in {"target", "bare"}
    BY DEF RunBusiness, TargetReturns, RunTarget
<1>3. ~TargetRan(p) /\ (pc[p] = "bare" => ~Advised(p))
    BY <1>1, <1>2 DEF CallInv, FreshInv, NotYetTarget, NothingRun, ChainInv, TargetRan, Runs
<1>4. PICK e :
          /\ Adds(p, e) /\ e.type = "target" /\ e.id = "target" /\ e.outcome = "ok"
          /\ todo' = todo /\ inert' = inert
          /\ pc'[p] = IF pc[p] = "bare" THEN "epilogue" ELSE "completed"
          /\ bare'[p].error \in ErrorsOf(request[p])
          /\ ctx'[p].panicValue = ctx[p].panicValue
          /\ ctx[p].error \in {Nil, bare[p].error} => ctx'[p].error \in {Nil, bare'[p].error}
          /\ Wrapper(p).result => ctx'[p].results # <<>>
    BY <1>1, <1>3, BusinessActs
<1>5. UNCHANGED <<reg, chain, atLookup, wrapper, request, stale, metadata, audit>>
    BY <1>4 DEF RunBusiness, Adds, fixed, example
<1>6. Done(2) => Done(2)'
    BY <1>1, ExampleStepWoven, DoneStays
<1>7. /\ \A id : id # "target" => (Handled(p, id)' <=> Handled(p, id))
      /\ \A id : id # "target" => (Passes(p, id)' <=> Passes(p, id))
      /\ AllOk(p)' <=> AllOk(p)
    <2>1. /\ \A id : Handled(p, id)' <=> Handled(p, id) \/ e.id = id
          /\ \A id : Passes(p, id)' <=> Passes(p, id) \/ (e.id = id /\ e.outcome = "ok")
          /\ AllOk(p)' <=> AllOk(p) /\ e.outcome = "ok"
        BY <1>1, <1>4, AddsEntry
    <2> QED
        BY <1>4, <2>1
<1>8. /\ Advised(p)' = Advised(p) /\ Name(p)' = Name(p) /\ Argument(p)' = Argument(p)
      /\ \A t : Ids(p, t)' = Ids(p, t)
      /\ Wrapper(p)' = Wrapper(p) /\ pc'[p] \in {"epilogue", "completed"}
    BY <1>4, <1>5 DEF Advised, Name, Argument, Ids, Wrapper
<1>9. KeptInv(p)'
    <2>1. pc'[p] \notin AdviceTypes /\ pc[p] # "idle"
        BY <1>2, <1>8 DEF AdviceTypes
    <2>2. Prepared(Name(p), atLookup[p])' <=> Prepared(Name(p), atLookup[p])
        BY <1>5 DEF Name
    <2> QED
        BY <1>1, <1>5, <1>8, <2>1, <2>2 DEF KeptInv
<1>10. ExpectedInv(p)'
    BY <1>1, <1>4, <1>5, <1>6, HistoryExpected DEF Expected
<1>11. ContextInv(p)'
    <2>1. pc[p] \in Body
        BY <1>2 DEF Body, Early
    <2> QED
        BY <1>1, <1>4, <1>5, <1>7, <1>8, <2>1 DEF PartInv, ContextInv
<1>12. MetadataInv(p)' /\ AuditInv(p)'
    BY <1>1, <1>5, <1>7 DEF PartInv, MetadataInv, AuditInv
<1>13. TimerInv(p)'
    BY <1>1, <1>2, <1>3, <1>7, <1>8 DEF PartInv, TimerInv
<1>14. ReturningInv(p)'
    BY <1>2, <1>3, <1>4, <1>8 DEF ReturningInv
<1> QED
    BY <1>9, <1>10, <1>11, <1>12, <1>13, <1>14 DEF PartInv

\* The steps in which a call runs nothing.
LEMMA AdvanceMoves ==
    ASSUME TypeOK, NEW p \in Calls, CallInv(p), Advance(p)
    PROVE  /\ Quiet(p) /\ inert'[p] = inert[p] /\ bare'[p] = bare[p]
           /\ ctx'[p].results = ctx[p].results /\ ctx'[p].error = ctx[p].error
           /\ pc[p] # "recover" => ctx'[p] = ctx[p]
           /\ pc'[p] \in AdviceTypes => Load(p, pc'[p])
           /\ pc[p] \in {"Before", "AfterReturning"} => todo[p] = <<>>
           /\ pc[p] = "found" => pc'[p] = "Before"
           /\ pc[p] = "completed" /\ pc'[p] # "AfterReturning" =>
                 ctx[p].error # Nil \/ HasPanic(ctx[p])
           /\ pc'[p] \in Body => pc[p] \in Body /\ pc[p] # "recover"
           /\ pc[p] # "idle"
<1>1. CASE Epilogue(p)
    BY <1>1 DEF Epilogue, Goto, TypeOK, Quiet, frame, fixed, history, Body, Early, AdviceTypes
<1>2. CASE StartBefore(p) \/ FinishBefore(p) \/ Complete(p) \/ Recover(p) \/ StartAfter(p)
           \/ FinishList(p)
    <2>1. Still(p) /\ Moves(p)
        BY <1>2, QuietSteps
    <2>2. /\ Quiet(p) /\ inert'[p] = inert[p] /\ bare'[p] = bare[p]
          /\ ctx'[p].results = ctx[p].results /\ ctx'[p].error = ctx[p].error
          /\ pc[p] = "found" => pc'[p] = "Before"
          /\ pc'[p] \in Body => pc[p] \in Body /\ pc[p] # "recover"
          /\ pc[p] # "idle"
        BY <2>1 DEF Still, Moves, Body, Early
    <2>3. pc[p] # "recover" => ctx'[p] = ctx[p]
        BY <1>2 DEF StartBefore, FinishBefore, Complete, Recover, StartAfter, FinishList
    <2>4. pc[p] \in {"Before", "AfterReturning"} => todo[p] = <<>>
        BY <1>2 DEF StartBefore, FinishBefore, Complete, Recover, StartAfter, FinishList
    <2>5. pc'[p] \in AdviceTypes => Load(p, pc'[p])
        <3> USE DEF Load, Goto, TypeOK, AdviceTypes
        <3>1. CASE StartBefore(p) \/ StartAfter(p)
            BY <3>1 DEF StartBefore, StartAfter
        <3>2. CASE FinishBefore(p)
            BY <3>2 DEF FinishBefore
        <3>3. CASE Complete(p)
            BY <3>3 DEF Complete
        <3>4. CASE Recover(p)
            BY <3>4 DEF Recover
        <3>5. CASE FinishList(p)
            BY <3>5, UnwindType DEF FinishList, Leave
        <3> QED
            BY <1>2, <3>1, <3>2, <3>3, <3>4, <3>5
    <2>6. pc[p] = "completed" /\ pc'[p] # "AfterReturning" =>
              ctx[p].error # Nil \/ HasPanic(ctx[p])
        BY <1>2 DEF StartBefore, FinishBefore, Complete, Recover, StartAfter, FinishList,
                    Load, Goto, TypeOK
    <2> QED
        BY <2>2, <2>3, <2>4, <2>5, <2>6
<1> QED
    BY <1>1, <1>2 DEF Advance

\* A list that is started is taken from the chain.
LEMMA LoadListed ==
    ASSUME TypeOK, NEW p \in Calls, NEW type \in AdviceTypes, Advised(p), Load(p, type)
    PROVE  Range(todo'[p]) \subseteq Range(reg.chains[chain[p]][type])
<1>1. chain[p] \in 1..Len(reg.chains) /\ reg \in RegistryRecord
    BY DEF TypeOK, Advised, NoChain, RegistryRecord
<1> DEFINE loaded == reg.chains[chain[p]][type]
<1>2. PICK copy \in SortedCopies(loaded) : todo' = [todo EXCEPT ![p] = copy]
    BY DEF Load
<1>3. loaded \in Seq(Advice)
    BY <1>1, <1>2, LoadedType
<1> HIDE DEF loaded
<1>4. \A m \in DOMAIN copy : \E k \in DOMAIN loaded : copy[m] = loaded[k]
    BY <1>2, <1>3, SortedCopyElements
<1>5. todo'[p] = copy
    BY <1>2 DEF TypeOK
<1> QED
    BY <1>4, <1>5 DEF Range, loaded

LEMMA AdvanceKeeps ==
    ASSUME EInv, NEW p \in Calls, Advance(p)
    PROVE  PartInv(p)'
<1>1. /\ TypeOK /\ IInv /\ CallInv(p) /\ OutcomeInv(p) /\ PartInv(p)
      /\ KeptInv(p) /\ ExpectedInv(p) /\ 2 \in Calls
    BY PartsOf
<1>2. /\ Quiet(p) /\ inert'[p] = inert[p] /\ bare'[p] = bare[p]
      /\ ctx'[p].results = ctx[p].results /\ ctx'[p].error = ctx[p].error
      /\ pc[p] # "recover" => ctx'[p] = ctx[p]
      /\ pc'[p] \in AdviceTypes => Load(p, pc'[p])
      /\ pc[p] \in {"Before", "AfterReturning"} => todo[p] = <<>>
      /\ pc[p] = "found" => pc'[p] = "Before"
      /\ pc[p] = "completed" /\ pc'[p] # "AfterReturning" =>
            ctx[p].error # Nil \/ HasPanic(ctx[p])
      /\ pc'[p] \in Body => pc[p] \in Body /\ pc[p] # "recover"
      /\ pc[p] # "idle"
    BY <1>1, AdvanceMoves
<1>3. /\ UNCHANGED <<reg, chain, atLookup, wrapper, request, stale, metadata, audit>>
      /\ ran' = ran
    BY <1>2 DEF Advance, Quiet, fixed, example
<1>4. /\ \A t : RanAll(p, t)' = RanAll(p, t)
      /\ \A t : Cut(p, t)' = Cut(p, t)
      /\ TargetRan(p)' = TargetRan(p)
      /\ Advised(p)' = Advised(p)
    BY <1>1, <1>2, QuietKeeps
<1>5. /\ Name(p)' = Name(p) /\ Argument(p)' = Argument(p) /\ Wrapper(p)' = Wrapper(p)
      /\ \A t : Ids(p, t)' = Ids(p, t)
      /\ \A id : Handled(p, id)' = Handled(p, id)
      /\ \A id : Passes(p, id)' = Passes(p, id)
      /\ AllOk(p)' = AllOk(p) /\ Worked(p)' = Worked(p)
    BY <1>2, <1>3, <1>4 DEF Name, Argument, Wrapper, Ids, Handled, Passes, AllOk, Worked
<1>6. KeptInv(p)'
    <2>1. ASSUME pc'[p] \in AdviceTypes
          PROVE  Range(todo'[p]) \subseteq Range(atLookup'[p][pc'[p]])
        <3>1. Advised(p)'
            <4>1. CallInv(p)'
                BY <1>1, ExampleStepWoven, StepKeeps
            <4> QED
                BY <2>1, <4>1 DEF CallInv, ChainInv, Woven
        <3>2. Range(todo'[p]) \subseteq Range(reg.chains[chain[p]][pc'[p]])
            BY <1>1, <1>2, <1>4, <2>1, <3>1, LoadListed
        <3> QED
            BY <1>1, <1>3, <1>4, <3>1, <3>2 DEF KeptInv
    <2>2. Prepared(Name(p), atLookup[p])' <=> Prepared(Name(p), atLookup[p])
        BY <1>3 DEF Name
    <2> QED
        BY <1>1, <1>2, <1>3, <1>4, <2>1, <2>2 DEF KeptInv
<1>7. ExpectedInv(p)'
    <2> SUFFICES ASSUME NEW i \in DOMAIN ran[p]
                 PROVE  Expected(p, ran[p][i])'
        BY <1>3 DEF ExpectedInv
    <2>1. PICK x : x = ran[p][i]
        OBVIOUS
    <2>2. Expected(p, x)
        BY <1>1, <2>1 DEF ExpectedInv
    <2>3. Done(2) => Done(2)'
        BY <1>1, ExampleStepWoven, DoneStays
    <2>4. Expected(p, x)'
        BY <1>3, <2>2, <2>3, StaysExpected
    <2> QED
        BY <1>3, <2>1, <2>4
<1>8. ContextInv(p)'
    BY <1>1, <1>2, <1>3, <1>4, <1>5 DEF PartInv, ContextInv
<1>9. MetadataInv(p)' /\ AuditInv(p)'
    BY <1>1, <1>3, <1>5 DEF PartInv, MetadataInv, AuditInv
<1>10. TimerInv(p)'
    <2> SUFFICES ASSUME Advised(p), pc'[p] \notin {"found", "Before"},
                        "monitor" \in Ids(p, "After")
                 PROVE  Passes(p, "timer start")
        BY <1>4, <1>5 DEF TimerInv
    <2>1. CASE pc[p] = "Before"
        <3>1. RanAll(p, "Before") /\ ~Cut(p, "Before")
            BY <1>1, <1>2, <2>1, ListDone DEF CallInv, ListInv, AdviceTypes
        <3>2. "timer start" \in Ids(p, "Before")
            BY <1>1 DEF KeptInv, Prepared, Ids
        <3> QED
            BY <3>1, <3>2, PassedAll
    <2>2. CASE pc[p] # "Before"
        BY <1>1, <1>2, <2>2 DEF PartInv, TimerInv
    <2> QED
        BY <2>1, <2>2
<1>11. ReturningInv(p)'
    <2> SUFFICES ASSUME Advised(p), Worked(p), pc'[p] \notin {"completed", "AfterReturning"}
                 PROVE  RanAll(p, "AfterReturning") \/ Cut(p, "AfterReturning")
        BY <1>4, <1>5 DEF ReturningInv
    <2>1. CASE pc[p] = "completed"
        <3>1. ctx[p].panicValue = Nil /\ ctx[p].error = Nil
            BY <1>1, <2>1 DEF PartInv, ContextInv, Body, Worked
        <3> QED
            BY <1>2, <2>1, <3>1 DEF HasPanic
    <2>2. CASE pc[p] = "AfterReturning"
        BY <1>1, <1>2, <2>2, ListDone DEF CallInv, AdviceTypes
    <2>3. CASE pc[p] \notin {"completed", "AfterReturning"}
        BY <1>1, <2>3 DEF PartInv, ReturningInv
    <2> QED
        BY <2>1, <2>2, <2>3
<1> QED
    BY <1>6, <1>7, <1>8, <1>9, <1>10, <1>11 DEF PartInv

\* A call begins: the program has prepared the function.
LEMMA InvokedKeeps ==
    ASSUME EInv, NEW p \in Calls, NEW name, name = Name(p), Invoke(p, name),
           UNCHANGED <<metadata, audit, request>>
    PROVE  PartInv(p)'
<1>1. /\ TypeOK /\ CallInv(p) /\ PartInv(p) /\ KeptInv(p) /\ SetupInv /\ RequestInv
      /\ name \in Names \ {EmptyName}
    BY PartsOf, Requested
<1>2. pc[p] = "idle" /\ UNCHANGED <<reg, wrapper, ctx, todo, ran, inert, bare>>
    BY DEF Invoke, frame, history
<1>3. ran[p] = <<>> /\ ran'[p] = <<>> /\ ~Advised(p)
    BY <1>1, <1>2 DEF CallInv, FreshInv, NothingRun, ChainInv
<1>4. /\ \A id : ~Handled(p, id) /\ ~Handled(p, id)'
      /\ \A id : ~Passes(p, id) /\ ~Passes(p, id)'
      /\ AllOk(p) /\ ~TargetRan(p)'
    BY <1>3 DEF Handled, Passes, AllOk, TargetRan, Runs
<1> DEFINE c == Lookup(reg, name)
<1>5. pc'[p] \in {"found", "bare"} /\ KeptInv(p)' /\ TimerInv(p)'
    <2>1. CASE c # NoChain
        <3>1. GetAdviceChain(reg, name, c).reply = [Ok EXCEPT !.chain = c]
            BY <1>1, <2>1 DEF GetAdviceChain, Result
        <3>2. GetAdviceChain(reg, name, c).reply.error = "none"
              /\ GetAdviceChain(reg, name, c).reply.chain = c
            BY <3>1 DEF Ok
        <3>3. pc'[p] = "found" /\ chain'[p] = c /\ atLookup'[p] = reg.chains[c]
            BY <1>1, <3>2 DEF Invoke, Goto, TypeOK
        <3>4. Prepared(name, reg.chains[c])
            BY <1>1, <2>1 DEF SetupInv, Registered
        <3>5. Name(p)' = name
            BY DEF Name
        <3>6. Advised(p)'
            BY <2>1, <3>3 DEF Advised
        <3>7. Prepared(Name(p), atLookup[p])'
            BY <3>3, <3>4, <3>5
        <3>8. KeptInv(p)'
            BY <1>2, <3>3, <3>6, <3>7 DEF KeptInv, AdviceTypes
        <3> QED
            BY <3>3, <3>8 DEF TimerInv
    <2>2. CASE c = NoChain
        <3>1. GetAdviceChain(reg, name, c).reply.error = "not registered"
            BY <1>1, <2>2 DEF GetAdviceChain, Result, Failed, Ok
        <3>2. pc'[p] = "bare" /\ chain'[p] = chain[p]
            BY <1>1, <3>1 DEF Invoke, Goto, TypeOK
        <3>3. ~Advised(p)'
            BY <1>3, <3>2 DEF Advised
        <3>4. p # 1
            BY <1>1, <2>2 DEF SetupInv
        <3>5. KeptInv(p)'
            BY <3>2, <3>3, <3>4 DEF KeptInv, AdviceTypes
        <3> QED
            BY <3>2, <3>3, <3>5 DEF TimerInv
    <2> QED
        BY <2>1, <2>2
<1>6. ExpectedInv(p)'
    BY <1>3 DEF ExpectedInv
<1>7. ContextInv(p)'
    <2>1. pc[p] \in Body
        BY <1>2 DEF Body, Early
    <2>2. inert[p]
        BY <1>1, <1>4 DEF PartInv, ContextInv
    <2> QED
        BY <1>1, <1>2, <1>4, <2>1, <2>2 DEF PartInv, ContextInv
<1>8. MetadataInv(p)' /\ AuditInv(p)'
    BY <1>1, <1>4 DEF PartInv, MetadataInv, AuditInv
<1>9. ReturningInv(p)'
    BY <1>4 DEF ReturningInv, Worked
<1> QED
    BY <1>5, <1>6, <1>7, <1>8, <1>9 DEF PartInv

-----------------------------------------------------------------------------
(* The calls that a step is not about.                                     *)

LEMMA WrappersStay ==
    ASSUME NEW p \in Calls, Step(p) \/ \E name \in Names : Invoke(p, name)
    PROVE  wrapper' = wrapper
BY DEF Step, Invoke, StartBefore, FinishBefore, FinishAround, Complete, Recover, StartAfter,
       FinishList, HandlerReturns, HandlerFails, HandlerRaises, HandlerExits, Call,
       TargetReturns, TargetPanics, TargetExits, TargetThrows, RunTarget, Epilogue, fixed

LEMMA OthersKept ==
    ASSUME EInv, NEW p \in Calls, Step(p) \/ \E name \in Names : Invoke(p, name),
           NEW q \in Calls, q # p, request' = request,
           metadata'[q] = metadata[q], audit'[q] = audit[q],
           stale' = stale \/ ~Handled(q, "authenticate")
    PROVE  PartInv(q)'
<1>1. TypeOK /\ PartInv(q) /\ 2 \in Calls
    BY PartsOf
<1>2. Apart(q) /\ wrapper' = wrapper /\ reg' = reg
    BY <1>1, OthersApart, WrappersStay, StepRegistry
<1>3. Done(2) => Done(2)'
    BY <1>1, DoneStays
<1>4. Same(q)
    BY <1>2, <1>3 DEF Same
<1> QED
    BY <1>1, <1>4, SameKept

\* The steps of a call, but for the notification that one of its handlers makes.
Works(p) == RunHandler(p) \/ RunBusiness(p) \/ Advance(p)

LEMMA WorkKept ==
    ASSUME EInv, NEW p \in Calls, Works(p), NEW q \in Calls
    PROVE  PartInv(q)'
<1>1. Typed /\ Step(p) /\ UNCHANGED <<request, stale>>
    BY PartsOf, ExampleStepWoven DEF Works, ExampleStep
<1>2. q # p => metadata'[q] = metadata[q] /\ audit'[q] = audit[q]
    BY <1>1 DEF Works, RunHandler, RunBusiness, Advance, example, Typed
<1>3. CASE q = p
    BY <1>3, HandlerKeeps, BusinessKeeps, AdvanceKeeps DEF Works
<1>4. CASE q # p
    BY <1>1, <1>2, <1>4, OthersKept
<1> QED
    BY <1>3, <1>4

\* What the rest of the program sees of such a step.
LEMMA WorkSeen ==
    ASSUME EInv, NEW p \in Calls, Works(p)
    PROVE  /\ UNCHANGED <<reg, chain, atLookup, wrapper, request, expired, stale, retryVars>>
           /\ pc[p] # "idle"
           /\ \A q \in Calls :
                 /\ Done(q) => Done(q)' /\ (Worked(q)' <=> Worked(q))
                 /\ pc'[q] # "idle" <=> pc[q] # "idle"
                 /\ TargetRan(q) => TargetRan(q)'
<1>1. /\ TypeOK /\ CallInv(p) /\ OutcomeInv(p) /\ Typed /\ Step(p)
      /\ UNCHANGED <<request, expired, stale, retryVars>>
    BY PartsOf, ExampleStepWoven DEF Works, ExampleStep
<1>2. /\ pc[p] # "idle" /\ (TargetRan(p) => TargetRan(p)')
      /\ UNCHANGED <<reg, chain, atLookup, wrapper>>
    <2>1. CASE RunHandler(p)
        <3>1. PICK e : Acts(p, e)
            BY <1>1, <2>1, HandlerActs
        <3>2. Adds(p, e) /\ pc[p] \in AdviceTypes
            BY <3>1 DEF Acts
        <3> QED
            BY <1>1, <3>2, AddsOutcome DEF Adds, fixed, AdviceTypes
    <2>2. CASE RunBusiness(p)
        <3>1. pc[p] \in {"target", "bare"}
            BY <2>2 DEF RunBusiness, TargetReturns, RunTarget
        <3>2. ~TargetRan(p)
            BY <1>1, <3>1 DEF CallInv, FreshInv, NotYetTarget, NothingRun, TargetRan, Runs
        <3>3. PICK e : Adds(p, e)
            BY <1>1, <2>2, <3>2, BusinessActs
        <3> QED
            BY <3>1, <3>2, <3>3 DEF Adds, fixed
    <2>3. CASE Advance(p)
        BY <1>1, <2>3, AdvanceMoves DEF Quiet, TargetRan, Runs, fixed
    <2> QED
        BY <2>1, <2>2, <2>3 DEF Works
<1>3. ASSUME NEW q \in Calls
      PROVE  /\ Done(q) => Done(q)' /\ (Worked(q)' <=> Worked(q))
             /\ pc'[q] # "idle" <=> pc[q] # "idle"
             /\ TargetRan(q) => TargetRan(q)'
    <2>1. /\ Done(q) => Done(q)' /\ q # p
          /\ pc[q] # "idle" => pc'[q] # "idle"
        BY <1>1, DoneStays
    <2>2. CASE q # p
        <3>1. Apart(q)
            BY <1>1, <2>2, OthersApart
        <3> QED
            BY <2>1, <3>1 DEF Apart, Untouched, Worked, TargetRan, Runs
    <2>3. CASE q = p
        BY <1>2, <2>1, <2>3
    <2> QED
        BY <2>2, <2>3
<1> QED
    BY <1>1, <1>2, <1>3

LEMMA WorkMain ==
    ASSUME EInv, NEW p \in Calls, Works(p)
    PROVE  MainInv'
<1>1. /\ UNCHANGED <<reg, chain, atLookup, wrapper, request, expired, stale, retryVars>>
      /\ pc[p] # "idle"
      /\ \A q \in Calls :
            /\ Done(q) => Done(q)' /\ (Worked(q)' <=> Worked(q))
            /\ pc'[q] # "idle" <=> pc[q] # "idle"
            /\ TargetRan(q) => TargetRan(q)'
    BY WorkSeen
<1>2. MainInv /\ 1 \in Calls /\ 2 \in Calls
    BY PartsOf, ExamplesAssumption DEF EInv
<1>3. Typed'
    <2>1. \A id : Sets(id) \subseteq {"userID", "role", "start"}
        BY DEF Sets
    <2>2. AuditRecord(p) \in [user : BOOLEAN, status : {"SUCCESS", "FAILED"}]
        BY DEF AuditRecord
    <2>3. metadata'[p] \subseteq metadata[p] \cup {"userID", "role", "start"}
          /\ (audit'[p] = audit[p] \/ audit'[p] = Append(audit[p], AuditRecord(p)))
          /\ metadata' = [metadata EXCEPT ![p] = metadata'[p]]
          /\ audit' = [audit EXCEPT ![p] = audit'[p]]
        <3>1. CASE RunHandler(p)
            BY <1>2, <2>1, <3>1 DEF RunHandler, MainInv, Typed
        <3>2. CASE RunBusiness(p) \/ Advance(p)
            BY <1>2, <3>2 DEF RunBusiness, Advance, example, MainInv, Typed
        <3> QED
            BY <3>1, <3>2 DEF Works
    <2> DEFINE Entries == [user : BOOLEAN, status : {"SUCCESS", "FAILED"}]
               Log == Seq(Entries)
    <2>4. audit'[p] \in Log
        <3>1. audit[p] \in Log
            BY <1>2 DEF MainInv, Typed
        <3>2. AuditRecord(p) \in Entries
            BY <2>2
        <3> HIDE DEF Entries
        <3> QED
            BY <2>3, <3>1, <3>2
    <2>5. audit' \in [Calls -> Log]
        BY <1>2, <2>3, <2>4 DEF MainInv, Typed
    <2>6. metadata' \in [Calls -> SUBSET {"userID", "role", "start"}]
        BY <1>2, <2>3 DEF MainInv, Typed
    <2> QED
        BY <1>1, <1>2, <2>5, <2>6 DEF MainInv, Typed, retryVars
<1>4. RequestInv' /\ SetupInv'
    BY <1>1, <1>2 DEF MainInv, RequestInv, SetupInv, Name
<1>5. WithRetry' = WithRetry /\ Current' = Current /\ UNCHANGED <<phase, limit, attempt, lastErr>>
    BY <1>1 DEF WithRetry, Current, retryVars
<1>6. NotifyInv'
    BY <1>1, <1>2, <1>5 DEF MainInv, NotifyInv, Ids
<1>7. SingleInv'
    BY <1>1, <1>2, <1>5 DEF MainInv, SingleInv
<1>8. RetryInv'
    <2> SUFFICES ASSUME WithRetry
                 PROVE  RetryInv'
        BY <1>5 DEF RetryInv
    <2>1. 1..attempt \subseteq Calls
        BY <1>2, ExamplesAssumption, RetryAssumption DEF MainInv, RetryInv, Typed
    <2> QED
        BY <1>1, <1>2, <1>5, <2>1 DEF MainInv, RetryInv
<1> QED
    BY <1>3, <1>4, <1>6, <1>7, <1>8 DEF MainInv

-----------------------------------------------------------------------------
(* A call begins.                                                          *)

LEMMA InvokeSeen ==
    ASSUME EInv, NEW p \in Calls, NEW name \in Names, Invoke(p, name)
    PROVE  /\ UNCHANGED <<reg, wrapper, bare, ran>>
           /\ pc[p] = "idle"
           /\ \A q \in Calls :
                 /\ Done(q) => Done(q)' /\ (Worked(q)' <=> Worked(q))
                 /\ q # p => (pc'[q] # "idle" <=> pc[q] # "idle")
                 /\ TargetRan(q) => TargetRan(q)'
                 /\ pc[q] # "idle" => atLookup'[q] = atLookup[q]
<1>1. TypeOK
    BY PartsOf
<1>2. UNCHANGED <<reg, wrapper, bare, ran>> /\ pc[p] = "idle"
    BY DEF Invoke, history
<1>3. ASSUME NEW q \in Calls
      PROVE  /\ Done(q) => Done(q)' /\ (Worked(q)' <=> Worked(q))
             /\ q # p => (pc'[q] # "idle" <=> pc[q] # "idle")
             /\ TargetRan(q) => TargetRan(q)'
             /\ pc[q] # "idle" => atLookup'[q] = atLookup[q]
    <2>1. Done(q) => Done(q)'
        BY <1>1, DoneStays
    <2>2. q # p => Untouched(q)
        BY <1>1, DoneStays
    <2> QED
        BY <1>2, <2>1, <2>2 DEF Untouched, Worked, TargetRan, Runs
<1> QED
    BY <1>2, <1>3

\* The handler "confirm" is run by a call of CreateOrder whose function has run.
LEMMA NotifyCalls ==
    ASSUME EInv, NEW p \in Calls, Notify(p)
    PROVE  /\ p = 1 /\ ~WithRetry /\ TargetRan(1) /\ pc[1] # "idle"
           /\ "confirm" \in Ids(1, "AfterReturning")
           /\ Name(2) = "SendNotification" /\ Name(2) \in Names
           /\ Invoke(2, Name(2)) /\ UNCHANGED <<example, retryVars>>
<1>1. /\ pc[p] = "AfterReturning" /\ todo[p] # <<>> /\ Head(todo[p]).id = "confirm"
      /\ Invoke(2, "SendNotification") /\ UNCHANGED <<example, retryVars>>
    BY DEF Notify
<1>2. /\ RequestInv /\ KeptInv(p) /\ ExpectedInv(p) /\ OutcomeInv(p)
      /\ 1 \in Calls /\ 2 \in Calls
    BY PartsOf
<1>3. Advised(p) /\ "confirm" \in Ids(p, "AfterReturning")
    BY <1>1, HeadListed DEF AdviceTypes
<1>4. Name(p) = "CreateOrder"
    BY <1>2, <1>3, Placed DEF AdviceTypes
<1>5. p = 1 /\ ~WithRetry
    BY <1>2, <1>4, Requested
<1>6. TargetRan(p)
    BY <1>1, <1>2, ReturningWorked DEF Worked
<1>7. Name(2) = "SendNotification" /\ Name(2) \in Names
    BY <1>2, <1>5, Requested DEF Name, Notification
<1> QED
    BY <1>1, <1>3, <1>5, <1>6, <1>7

LEMMA NotifyKept ==
    ASSUME EInv, NEW p \in Calls, Notify(p)
    PROVE  MainInv' /\ \A q \in Calls : PartInv(q)'
<1>1. /\ ~WithRetry /\ TargetRan(1) /\ pc[1] # "idle"
      /\ "confirm" \in Ids(1, "AfterReturning")
      /\ Name(2) \in Names /\ Invoke(2, Name(2)) /\ UNCHANGED <<example, retryVars>>
    BY NotifyCalls
<1>2. MainInv /\ 1 \in Calls /\ 2 \in Calls
    BY PartsOf, ExamplesAssumption DEF EInv
<1>3. UNCHANGED <<request, metadata, audit, expired, stale, phase, limit, attempt, lastErr>>
    BY <1>1 DEF example, retryVars
<1>4. ASSUME NEW q \in Calls
      PROVE  PartInv(q)'
    <2>1. CASE q = 2
        BY <1>1, <1>2, <1>3, <2>1, InvokedKeeps
    <2>2. CASE q # 2
        BY <1>1, <1>2, <1>3, <2>2, OthersKept
    <2> QED
        BY <2>1, <2>2
<1>5. /\ UNCHANGED <<reg, wrapper>>
      /\ \A q \in Calls :
            /\ Done(q) => Done(q)'
            /\ TargetRan(q) => TargetRan(q)'
            /\ pc[q] # "idle" => atLookup'[q] = atLookup[q]
    BY <1>1, <1>2, InvokeSeen
<1>6. Typed' /\ RequestInv' /\ SetupInv'
    BY <1>2, <1>3, <1>5 DEF MainInv, Typed, RequestInv, SetupInv, Name
<1>7. NotifyInv'
    BY <1>1, <1>2, <1>5 DEF NotifyInv, Ids
<1>8. SingleInv'
    BY <1>1, <1>2, <1>3, <1>5 DEF MainInv, SingleInv
<1>9. RetryInv'
    BY <1>1, <1>3 DEF RetryInv, WithRetry
<1> QED
    BY <1>4, <1>6, <1>7, <1>8, <1>9 DEF MainInv

\* An attempt, or the one call of a program that does not retry.
LEMMA BeginCalls ==
    ASSUME EInv, Begin
    PROVE  /\ Current \in Calls /\ Name(Current) \in Names
           /\ Invoke(Current, Name(Current))
           /\ phase = "ready" /\ phase' = "calling"
           /\ UNCHANGED <<limit, attempt, lastErr, request, metadata, audit, expired>>
           /\ stale' = expired
           /\ ~WithRetry => Current = 1
<1>1. /\ phase = "ready" /\ phase' = "calling" /\ UNCHANGED <<limit, attempt, lastErr>>
      /\ Invoke(Current, request[Current].function)
      /\ stale' = expired /\ UNCHANGED <<request, metadata, audit, expired>>
    BY DEF Begin, CallFunction
<1>2. MainInv /\ RequestInv /\ 1 \in Calls
    BY PartsOf, ExamplesAssumption DEF EInv
<1>3. ~WithRetry => Current = 1
    BY <1>2 DEF MainInv, SingleInv, Current
<1>4. WithRetry => Current \in 1..(limit + 1) /\ limit \in RetryLimits
    BY <1>1, <1>2, RetryAssumption DEF MainInv, RetryInv, Typed, Current
<1>5. Current \in Calls
    BY <1>2, <1>3, <1>4, ExamplesAssumption
<1>6. Name(Current) \in Names
    BY <1>2, <1>5, Requested
<1> QED
    BY <1>1, <1>3, <1>5, <1>6 DEF Name

LEMMA BeginKept ==
    ASSUME EInv, Begin
    PROVE  MainInv' /\ \A q \in Calls : PartInv(q)'
<1> DEFINE c == Current
<1>1. /\ c \in Calls /\ Name(c) \in Names /\ Invoke(c, Name(c))
      /\ phase = "ready" /\ phase' = "calling"
      /\ UNCHANGED <<limit, attempt, lastErr, request, metadata, audit, expired>>
      /\ stale' = expired
      /\ ~WithRetry => c = 1
    BY BeginCalls
<1>2. MainInv /\ RequestInv /\ Typed /\ 1 \in Calls /\ 2 \in Calls
    BY PartsOf, ExamplesAssumption DEF EInv
<1>3. WithRetry' = WithRetry /\ Current' = c
    BY <1>1 DEF WithRetry, Current
<1>4. c = attempt + 1 /\ attempt \in Nat
    BY <1>2 DEF Current, Typed
<1> HIDE DEF c
<1>5. ASSUME NEW q \in Calls, Handled(q, "authenticate")
      PROVE  FALSE
    <2>1. CallInv(q) /\ ExpectedInv(q) /\ KeptInv(q)
        BY PartsOf
    <2>2. CASE ~WithRetry
        <3>1. pc[q] = "idle"
            BY <1>1, <1>2, <2>2 DEF MainInv, SingleInv
        <3> QED
            BY <1>5, <2>1, <3>1 DEF CallInv, FreshInv, NothingRun, Handled
    <2>3. CASE WithRetry
        <3>1. PICK i \in DOMAIN ran[q] : ran[q][i].id = "authenticate"
            BY <1>5 DEF Handled
        <3>2. /\ Advised(q) /\ ran[q][i].type \in AdviceTypes
              /\ "authenticate" \in Ids(q, ran[q][i].type)
            BY <2>1, <3>1 DEF ExpectedInv, Expected
        <3>3. Name(q) \in Range(Protected)
            BY <2>1, <3>2, Placed
        <3> QED
            BY <1>2, <2>3, <3>3, Requested
    <2> QED
        BY <2>2, <2>3
<1>6. ASSUME NEW q \in Calls
      PROVE  PartInv(q)'
    <2>1. CASE q = c
        BY <1>1, <2>1, InvokedKeeps
    <2>2. CASE q # c
        BY <1>1, <1>5, <2>2, OthersKept
    <2> QED
        BY <2>1, <2>2
<1>7. /\ UNCHANGED <<reg, wrapper>> /\ pc[c] = "idle"
      /\ \A q \in Calls :
            /\ Done(q) => Done(q)' /\ (Worked(q)' <=> Worked(q))
            /\ q # c => (pc'[q] # "idle" <=> pc[q] # "idle")
            /\ TargetRan(q) => TargetRan(q)'
            /\ pc[q] # "idle" => atLookup'[q] = atLookup[q]
    BY <1>1, InvokeSeen
<1>8. Typed' /\ RequestInv' /\ SetupInv'
    BY <1>1, <1>2, <1>7 DEF MainInv, Typed, RequestInv, SetupInv, Name
<1>9. NotifyInv' /\ SingleInv'
    <2> SUFFICES ASSUME ~WithRetry
                 PROVE  NotifyInv' /\ SingleInv'
        BY <1>3 DEF NotifyInv, SingleInv
    <2>1. c = 1 /\ pc[2] = "idle" /\ pc'[2] = "idle" /\ attempt = 0
        BY <1>1, <1>2, <1>7 DEF MainInv, SingleInv
    <2> QED
        BY <1>1, <2>1 DEF NotifyInv, SingleInv
<1>10. RetryInv'
    <2> SUFFICES ASSUME WithRetry
                 PROVE  RetryInv'
        BY <1>3 DEF RetryInv
    <2>1. 1..attempt \subseteq Calls /\ limit \in Nat
        BY <1>2, ExamplesAssumption, RetryAssumption DEF MainInv, RetryInv, Typed
    <2>2. \A q \in 1..attempt : Done(q) /\ ~Worked(q)
        BY <1>2 DEF MainInv, RetryInv
    <2>3. \A q \in Calls : pc'[q] # "idle" => q = c \/ q \in 1..attempt
        BY <1>1, <1>2, <1>7 DEF MainInv, RetryInv
    <2> QED
        BY <1>1, <1>2, <1>3, <1>4, <1>7, <2>1, <2>2, <2>3 DEF MainInv, RetryInv
<1> QED
    BY <1>6, <1>8, <1>9, <1>10 DEF MainInv

-----------------------------------------------------------------------------
(* The main goroutine between the calls.                                   *)

LEMMA MainKept ==
    ASSUME EInv, UNCHANGED <<vars, request, metadata, audit, stale>>, expired \subseteq expired',
           limit' = limit, attempt' \in Nat, SingleInv', RetryInv'
    PROVE  MainInv' /\ \A q \in Calls : PartInv(q)'
<1>1. TypeOK /\ MainInv /\ 1 \in Calls
    BY PartsOf, ExamplesAssumption DEF EInv
<1>2. UNCHANGED <<reg, pc, wrapper, chain, atLookup, ran, bare>>
    BY DEF vars, fixed, history
<1>3. ASSUME NEW q \in Calls
      PROVE  PartInv(q)'
    <2>1. Same(q)
        BY <1>1, <1>2, EnvironmentApart DEF Same, Done
    <2> QED
        BY <2>1, PartsOf, SameKept
<1>4. Typed' /\ RequestInv' /\ SetupInv' /\ NotifyInv'
    BY <1>1, <1>2 DEF MainInv, Typed, RequestInv, SetupInv, NotifyInv, Name, WithRetry, TargetRan,
                      Runs, Ids
<1> QED
    BY <1>3, <1>4 DEF MainInv

\* Nothing of what SingleInv and RetryInv say of the calls changes.
LEMMA CallsStay ==
    ASSUME UNCHANGED <<vars, request>>
    PROVE  /\ WithRetry' = WithRetry
           /\ pc' = pc
           /\ \A q : Done(q)' = Done(q) /\ Worked(q)' = Worked(q)
BY DEF vars, history, WithRetry, Done, Worked, TargetRan, Runs

LEMMA RequestKept ==
    ASSUME EInv, Request
    PROVE  MainInv' /\ \A q \in Calls : PartInv(q)'
<1>1. MainInv /\ attempt \in Nat
    BY DEF EInv, MainInv, Typed
<1>2. /\ UNCHANGED <<vars, example, limit, attempt, lastErr>> /\ phase = "idle"
      /\ phase' = IF WithRetry THEN "test" ELSE "ready"
    BY DEF Request, Enter
<1>3. UNCHANGED <<vars, request, metadata, audit, stale, expired>>
    BY <1>2 DEF example
<1>4. SingleInv' /\ RetryInv'
    BY <1>1, <1>2, <1>3, CallsStay DEF MainInv, SingleInv, RetryInv, Current
<1> QED
    BY <1>1, <1>2, <1>3, <1>4, MainKept

LEMMA LoopKept ==
    ASSUME EInv, Loop
    PROVE  MainInv' /\ \A q \in Calls : PartInv(q)'
<1>1. MainInv /\ attempt \in Nat /\ limit \in Nat
    BY RetryAssumption DEF EInv, MainInv, Typed
<1>2. /\ UNCHANGED <<vars, example, limit, attempt, lastErr>>
      /\ \/ phase = "test" /\ phase' = CASE attempt > limit -> "returned"
                                         [] attempt <= limit /\ attempt > 0 -> "sleep"
                                         [] OTHER -> "ready"
         \/ phase = "sleep" /\ phase' = "ready"
    BY DEF Loop, Test, Sleep
<1>3. UNCHANGED <<vars, request, metadata, audit, stale, expired>>
    BY <1>2 DEF example
<1>4. WithRetry
    BY <1>1, <1>2 DEF MainInv, SingleInv
<1>5. SingleInv' /\ RetryInv'
    <2>1. CASE phase = "test" /\ attempt > limit
        <3>1. phase' = "returned" /\ attempt = limit + 1 /\ lastErr # Nil
            BY <1>1, <1>2, <1>4, <2>1 DEF MainInv, RetryInv
        <3> QED
            BY <1>1, <1>2, <1>3, <1>4, <2>1, <3>1, CallsStay
            DEF MainInv, SingleInv, RetryInv, Current
    <2>2. CASE phase = "test" /\ ~(attempt > limit)
        <3>1. phase' \in {"sleep", "ready"} /\ attempt <= limit
            BY <1>1, <1>2, <2>2
        <3> QED
            BY <1>1, <1>2, <1>3, <1>4, <2>2, <3>1, CallsStay
            DEF MainInv, SingleInv, RetryInv, Current
    <2>3. CASE phase = "sleep"
        BY <1>1, <1>2, <1>3, <1>4, <2>3, CallsStay DEF MainInv, SingleInv, RetryInv, Current
    <2> QED
        BY <1>2, <2>1, <2>2, <2>3
<1> QED
    BY <1>1, <1>2, <1>3, <1>5, MainKept

LEMMA ExpireKept ==
    ASSUME EInv, Expire \/ UNCHANGED allVars
    PROVE  MainInv' /\ \A q \in Calls : PartInv(q)'
<1>1. MainInv /\ attempt \in Nat
    BY DEF EInv, MainInv, Typed
<1>2. /\ UNCHANGED <<vars, request, metadata, audit, stale, phase, limit, attempt, lastErr>>
      /\ expired \subseteq expired'
    BY DEF Expire, allVars, example, retryVars
<1>3. SingleInv' /\ RetryInv'
    BY <1>1, <1>2, CallsStay DEF MainInv, SingleInv, RetryInv, Current
<1> QED
    BY <1>1, <1>2, <1>3, MainKept

\* The handlers of the programs do not call runtime.Goexit.
LEMMA NoGoexit ==
    ASSUME EInv, NEW p \in Calls, Done(p)
    PROVE  ret[p].kind \in {"return", "panic"}
<1>1. IInv /\ ExpectedInv(p)
    BY PartsOf
<1>2. CASE FatalRuns(p) = {}
    <2>1. ret[p].kind = "return" \/ ret[p] = Answer(Panic("type assertion"), Zero, Nil)
        BY <1>1, <1>2 DEF IInv, AnswerInv
    <2>2. Answer(Panic("type assertion"), Zero, Nil).kind = "panic"
        BY DEF Answer, Panic
    <2> QED
        BY <2>1, <2>2
<1>3. CASE FatalRuns(p) # {}
    <2>1. PICK i \in FatalRuns(p) : ret[p] = Answer(ExitOf(ran[p][i]), Zero, Nil)
        BY <1>1, <1>3 DEF IInv, AnswerInv
    <2>2. ran[p][i].outcome # "goexit" /\ i \in DOMAIN ran[p]
        BY <1>1 DEF ExpectedInv, Expected, FatalRuns
    <2>3. ran[p][i].outcome \in {"panic", "error"}
        BY <2>2 DEF FatalRuns, Fatal
    <2>4. ExitOf(ran[p][i]).kind = "panic"
        BY <2>3 DEF ExitOf, Panic
    <2> QED
        BY <2>1, <2>4 DEF Answer
<1> QED
    BY <1>2, <1>3

\* WithRetry takes an attempt for what it was.
LEMMA AttemptJudged ==
    ASSUME EInv, WithRetry, NEW p \in Calls, Done(p), ret[p].kind = "return"
    PROVE  ret[p].error = bare[p].error /\ (Worked(p) <=> ret[p].error = NoError)
<1>1. IInv /\ OutcomeInv(p) /\ PartInv(p) /\ RequestInv
    BY PartsOf
<1>2. request[p] \in RetryRequests
    BY <1>1, Requested
<1>3. Name(p) \notin Range(Protected) /\ Argument(p) # "invalid"
    BY <1>2, Functions3 DEF RetryRequests, Name, Argument
<1>4. TargetRan(p) /\ ret[p] = bare[p]
    BY <1>1, <1>3, ReturnedWell
<1> QED
    BY <1>4, ExamplesAssumption DEF Worked

LEMMA EndKept ==
    ASSUME EInv, End
    PROVE  MainInv' /\ \A q \in Calls : PartInv(q)'
<1> DEFINE c == Current
<1>1. MainInv /\ attempt \in Nat /\ limit \in Nat /\ 1 \in Calls
    BY RetryAssumption, ExamplesAssumption DEF EInv, MainInv, Typed
<1>2. phase = "calling" /\ Done(c) /\ UNCHANGED <<vars, example>>
    BY DEF End
<1>3. UNCHANGED <<vars, request, metadata, audit, stale, expired>>
    BY <1>2 DEF example
<1>4. CASE ~WithRetry
    <2>1. c = 1
        BY <1>1, <1>4 DEF MainInv, SingleInv, Current
    <2>2. phase' \in {"returned", "panicked"} /\ limit' = limit /\ attempt' = attempt
        BY <1>4 DEF End, FunctionPanics
    <2>3. SingleInv' /\ RetryInv'
        BY <1>1, <1>2, <1>3, <1>4, <2>1, <2>2, CallsStay DEF MainInv, SingleInv, RetryInv
    <2> QED
        BY <1>1, <1>3, <2>2, <2>3, MainKept
<1>5. CASE WithRetry
    <2>1. c \in Calls /\ attempt <= limit /\ c = attempt + 1
        <3>1. attempt <= limit /\ c = attempt + 1
            BY <1>1, <1>2, <1>5 DEF MainInv, RetryInv, Current
        <3> QED
            BY <1>1, <3>1, ExamplesAssumption DEF MainInv, Typed
    <2>2. /\ \A q \in 1..attempt : Done(q) /\ ~Worked(q)
          /\ \A q \in Calls : pc[q] # "idle" => q \in 1..attempt \/ q = c
        BY <1>1, <1>2, <1>5 DEF MainInv, RetryInv
    <2>3. limit' = limit /\ attempt' \in Nat /\ SingleInv' /\ RetryInv'
        <3>1. CASE ret[c].kind = "panic"
            <4>1. phase' = "panicked" /\ UNCHANGED <<limit, attempt, lastErr>>
                BY <3>1 DEF End, FunctionPanics
            <4> QED
                BY <1>1, <1>3, <1>5, <2>1, <2>2, <4>1, CallsStay DEF SingleInv, RetryInv, Current
        <3>2. CASE ret[c].kind = "return" /\ ret[c].error = NoError
            <4>1. phase' = "returned" /\ lastErr' = Nil /\ UNCHANGED <<limit, attempt>>
                BY <1>5, <3>2, ExamplesAssumption DEF End, FunctionReturns
            <4>2. Worked(c)
                BY <1>2, <1>5, <2>1, <3>2, AttemptJudged
            <4>3. Current' = c
                BY <4>1 DEF Current
            <4> QED
                BY <1>1, <1>2, <1>3, <1>5, <2>1, <2>2, <4>1, <4>2, <4>3, CallsStay
                DEF SingleInv, RetryInv
        <3>3. CASE ret[c].kind = "return" /\ ret[c].error # NoError
            <4>1. phase' = "test" /\ lastErr' # Nil /\ attempt' = c /\ limit' = limit
                BY <1>5, <3>3, ExamplesAssumption DEF End, FunctionReturns, Current
            <4>2. ~Worked(c)
                BY <1>2, <1>5, <2>1, <3>3, AttemptJudged
            <4>3. \A q \in 1..c : Done(q) /\ ~Worked(q)
                BY <1>1, <1>2, <2>1, <2>2, <4>2
            <4>4. \A q \in Calls : pc[q] # "idle" => q \in 1..c
                BY <1>1, <2>1, <2>2
            <4>5. c <= limit + 1 /\ c \in Nat
                BY <1>1, <2>1
            <4> HIDE DEF c
            <4> QED
                BY <1>3, <1>5, <4>1, <4>3, <4>4, <4>5, CallsStay DEF SingleInv, RetryInv
        <3> QED
            BY <1>2, <2>1, <3>1, <3>2, <3>3, NoGoexit
    <2> QED
        BY <1>3, <2>3, MainKept
<1> QED
    BY <1>4, <1>5

-----------------------------------------------------------------------------
(* Example 4 attaches one more handler.                                    *)

LEMMA ConfirmPrepared ==
    ASSUME NEW old \in AdviceChain, Confirm \in Advice, Prepared("CreateOrder", old)
    PROVE  Prepared("CreateOrder", Add(old, Confirm))
<1> DEFINE new == Add(old, Confirm)
<1>1. Confirm.type = "AfterReturning" /\ Confirm.id = "confirm"
    BY DEF Confirm
<1>2. /\ old \in [AdviceTypes -> Seq(Advice)]
      /\ new = [old EXCEPT !["AfterReturning"] = Append(@, Confirm)]
    BY <1>1 DEF Add, AdviceTypes, AdviceChain
<1>3. /\ \A t \in AdviceTypes : t # "AfterReturning" => new[t] = old[t]
      /\ new["AfterReturning"] = Append(old["AfterReturning"], Confirm)
    BY <1>2 DEF AdviceTypes
<1>4. IdsOf(new["AfterReturning"]) = IdsOf(old["AfterReturning"]) \cup {"confirm"}
    <2> DEFINE list == old["AfterReturning"]
               more == new["AfterReturning"]
               n == Len(list) + 1
    <2>1. list \in Seq(Advice)
        BY <1>2 DEF AdviceTypes
    <2>2. /\ DOMAIN more = DOMAIN list \cup {n} /\ more[n] = Confirm
          /\ \A i \in DOMAIN list : more[i] = list[i]
        BY <1>3, <2>1
    <2> HIDE DEF list, more, n
    <2>3. Range(more) = Range(list) \cup {Confirm}
        BY <2>2 DEF Range
    <2> QED
        BY <1>1, <2>3 DEF IdsOf, list, more
<1> HIDE DEF new
<1>5. /\ new["Before"] = old["Before"] /\ new["After"] = old["After"]
      /\ new["Around"] = old["Around"]
    BY <1>3 DEF AdviceTypes
<1>6. ASSUME NEW t \in AdviceTypes, NEW id \in IdsOf(new[t])
      PROVE  id \in IdsOf(old[t]) \/ (t = "AfterReturning" /\ id = "confirm")
    <2>1. CASE t = "AfterReturning"
        BY <1>4, <1>6, <2>1
    <2>2. CASE t # "AfterReturning"
        <3>1. new[t] = old[t]
            BY <1>3, <2>2
        <3> QED
            BY <3>1
    <2> QED
        BY <2>1, <2>2
<1>7. \A t \in AdviceTypes : \A id \in IdsOf(new[t]) :
          /\ id \in {"validate", "authenticate", "authorize", "timer start", "payment log"}
                => t = "Before"
          /\ id \in {"audit", "monitor"} => t = "After"
          /\ id \in {"confirm", "success log"} => t = "AfterReturning"
    BY <1>6 DEF Prepared
<1>8. IdsOf(new["AfterReturning"]) \subseteq {"confirm"}
    <2>1. "CreateOrder" \notin Range(Protected)
        BY Functions3
    <2>2. IdsOf(old["AfterReturning"]) \subseteq {"confirm"}
        BY <2>1 DEF Prepared
    <2> QED
        BY <1>4, <2>2
<1>9. Prepared("CreateOrder", new)
    <2>1. "CreateOrder" \notin Range(Protected)
        BY Functions3
    <2> QED
        BY <1>5, <1>7, <1>8, <2>1 DEF Prepared
<1> QED
    BY <1>9 DEF new

LEMMA AttachKept ==
    ASSUME EInv, AttachConfirm
    PROVE  /\ Environment
           /\ MainInv' /\ \A q \in Calls : PartInv(q)'
<1> DEFINE L == Lookup(reg, "CreateOrder")
<1>1. /\ phase = "idle" /\ L # NoChain /\ AttachAdvice("CreateOrder", Confirm)
      /\ UNCHANGED <<pc, ret, frame, fixed, history, example, retryVars>>
    BY DEF AttachConfirm
<1>2. TypeOK /\ MainInv /\ SetupInv /\ Typed /\ 1 \in Calls
    BY PartsOf, ExamplesAssumption DEF EInv
<1>3. /\ UNCHANGED <<pc, chain, wrapper, atLookup, ran, bare, request, metadata, audit, expired, stale>>
      /\ UNCHANGED <<phase, limit, attempt, lastErr>>
    BY <1>1 DEF fixed, history, example, retryVars
<1>4. "CreateOrder" \in Names \ {EmptyName} /\ Confirm \in Advices /\ Confirm \in Advice
    <2>1. [function |-> "CreateOrder", argument |-> "valid"] \in Requests
        BY DEF Requests, BasicRequests
    <2> QED
        BY <2>1, ExamplesAssumption, WeaveAssumption
<1>5. Environment
    BY <1>1, <1>4 DEF Environment
<1>6. \A q \in Calls : pc[q] = "idle"
    BY <1>1, <1>2 DEF MainInv, SingleInv, RetryInv, Typed
<1>7. ASSUME NEW q \in Calls
      PROVE  PartInv(q)'
    <2>1. PartInv(q) /\ ~Advised(q)
        BY <1>6, PartsOf DEF CallInv, ChainInv
    <2>2. Same(q)
        BY <1>2, <1>3, <1>5, <2>1, EnvironmentApart DEF Same, Done
    <2> QED
        BY <2>1, <2>2, SameKept
<1>8. SetupInv'
    <2>1. reg' = AddTo(reg, L, Confirm)
        BY <1>1, <1>4 DEF AttachAdvice, AddAdvice, Result
    <2>2. reg \in RegistryRecord /\ reg.chains \in Seq(AdviceChain) /\ reg.entries \in [Names -> Nat]
        BY <1>2 DEF TypeOK, RegistryRecord
    <2>3. L \in 1..Len(reg.chains)
        BY <1>1, <1>4, <2>2 DEF RegistryRecord, Lookup, NoChain
    <2> HIDE DEF L
    <2>4. /\ reg'.entries = reg.entries
          /\ reg'.chains = [reg.chains EXCEPT ![L] = Add(reg.chains[L], Confirm)]
        BY <2>1, <2>2, <2>3 DEF AddTo, RegistryRecord
    <2>5. Lookup(reg, EmptyName)' = Lookup(reg, EmptyName) /\ Registered(reg)' = Registered(reg)
          /\ \A n : Lookup(reg', n) = Lookup(reg, n)
        BY <2>4 DEF Lookup, Registered
    <2>6. ASSUME NEW n \in Registered(reg)
          PROVE  Prepared(n, reg'.chains[Lookup(reg, n)])
        <3>1. Lookup(reg, n) \in 1..Len(reg.chains) /\ Prepared(n, reg.chains[Lookup(reg, n)])
              /\ n \in Names
            BY <1>2, <2>2 DEF SetupInv, Registered, RegistryRecord, Lookup, NoChain
        <3>2. CASE n = "CreateOrder"
            <4>1. reg.chains[L] \in AdviceChain /\ Lookup(reg, n) = L
                BY <2>2, <2>3, <3>2 DEF L
            <4> QED
                BY <1>4, <2>3, <2>2, <2>4, <3>1, <3>2, <4>1, ConfirmPrepared
        <3>3. CASE n # "CreateOrder"
            <4>1. Lookup(reg, n) # L
                BY <1>1, <1>2, <1>4, <3>3 DEF SetupInv, Unshared, Registered, L
            <4> QED
                BY <2>2, <2>4, <3>1, <4>1
        <3> QED
            BY <3>2, <3>3
    <2>7. Unshared(reg')
        BY <1>2, <2>5 DEF SetupInv, Unshared
    <2>8. Name(1)' = Name(1)
        BY <1>3 DEF Name
    <2> QED
        BY <1>2, <2>5, <2>6, <2>7, <2>8 DEF SetupInv
<1>9. Typed' /\ RequestInv' /\ NotifyInv'
    <2>1. Typed' /\ RequestInv'
        BY <1>2, <1>3 DEF MainInv, Typed, RequestInv
    <2>2. NotifyInv'
        BY <1>3, <1>6, ExamplesAssumption DEF NotifyInv
    <2> QED
        BY <2>1, <2>2
<1>10. SingleInv' /\ RetryInv'
    <2>1. /\ WithRetry' = WithRetry /\ Current' = Current /\ pc' = pc
          /\ \A q : Done(q)' = Done(q) /\ Worked(q)' = Worked(q)
        BY <1>3 DEF WithRetry, Current, Done, Worked, TargetRan, Runs
    <2> QED
        BY <1>2, <1>3, <2>1 DEF MainInv, SingleInv, RetryInv
<1> QED
    BY <1>5, <1>7, <1>8, <1>9, <1>10 DEF MainInv

-----------------------------------------------------------------------------
(* The invariant.                                                          *)

\* A program is a client of the library.
LEMMA ProgramWeaves ==
    ASSUME EInv, [ExampleNext]_allVars
    PROVE  [Next]_vars
<1>1. ASSUME NEW p \in Calls, ExampleStep(p)
      PROVE  Next
    <2>1. CASE Works(p)
        BY <2>1, ExampleStepWoven DEF Works, Next
    <2>2. CASE Notify(p)
        BY <2>2, NotifyCalls, ExamplesAssumption DEF Next
    <2> QED
        BY <1>1, <2>1, <2>2 DEF ExampleStep, Works
<1>2. CASE Begin
    BY <1>2, BeginCalls DEF Next
<1>3. CASE AttachConfirm
    BY <1>3, AttachKept DEF Next
<1>4. CASE Request \/ End \/ Loop \/ Expire \/ UNCHANGED allVars
    BY <1>4 DEF Request, End, Loop, Expire, allVars
<1> QED
    BY <1>1, <1>2, <1>3, <1>4 DEF ExampleNext

LEMMA InitExample == ExampleInit => EInv
<1> SUFFICES ASSUME ExampleInit
             PROVE  EInv
    OBVIOUS
<1>1. /\ Init /\ RetryInit /\ metadata = [p \in Calls |-> {}] /\ audit = [p \in Calls |-> <<>>]
      /\ attempt = 0 /\ phase = "idle" /\ attempt \in Nat /\ limit \in Nat
    BY RetryAssumption DEF ExampleInit, RetryInit
<1>2. SInv /\ OInv /\ Typed /\ RequestInv /\ SetupInv
    BY <1>1, InitOrder, InitOutcome, InitSetup
<1>3. \A p \in Calls :
          /\ pc[p] = "idle" /\ ran[p] = <<>> /\ inert[p] /\ ctx[p] = NewContext
          /\ chain[p] = NoChain
    BY <1>1 DEF Init
<1>4. ASSUME NEW p \in Calls
      PROVE  PartInv(p)
    <2>1. /\ \A id : ~Handled(p, id) /\ ~Passes(p, id)
          /\ ~TargetRan(p) /\ ~Advised(p)
        BY <1>3 DEF Handled, Passes, TargetRan, Runs, Advised
    <2>2. KeptInv(p) /\ TimerInv(p) /\ ReturningInv(p)
        BY <1>3, <2>1 DEF KeptInv, TimerInv, ReturningInv, AdviceTypes
    <2>3. ExpectedInv(p) /\ ContextInv(p)
        BY <1>3, <2>1 DEF ExpectedInv, ContextInv, NewContext
    <2>4. MetadataInv(p) /\ AuditInv(p)
        BY <1>1, <2>1 DEF MetadataInv, AuditInv
    <2> QED
        BY <2>2, <2>3, <2>4 DEF PartInv
<1>5. NotifyInv /\ SingleInv /\ RetryInv
    BY <1>1, <1>3, ExamplesAssumption DEF NotifyInv, SingleInv, RetryInv
<1> QED
    BY <1>2, <1>4, <1>5 DEF EInv, MainInv

LEMMA NextExample == EInv /\ [ExampleNext]_allVars => EInv'
<1> SUFFICES ASSUME EInv, [ExampleNext]_allVars
             PROVE  EInv'
    OBVIOUS
<1>1. [Next]_vars
    BY ProgramWeaves
<1>2. SInv' /\ OInv'
    BY <1>1, NextOrder, NextOutcome DEF EInv
<1>3. MainInv' /\ \A q \in Calls : PartInv(q)'
    <2>1. ASSUME NEW p \in Calls, ExampleStep(p)
          PROVE  MainInv' /\ \A q \in Calls : PartInv(q)'
        BY <2>1, WorkKept, WorkMain, NotifyKept DEF ExampleStep, Works
    <2> QED
        BY <2>1, RequestKept, BeginKept, EndKept, LoopKept, AttachKept, ExpireKept DEF ExampleNext
<1> QED
    BY <1>2, <1>3 DEF EInv

LEMMA ExampleInvariance == ExampleSpec => []EInv
BY InitExample, NextExample, PTL DEF ExampleSpec

-----------------------------------------------------------------------------
(* The error that WithRetry keeps.                                         *)

\* It is that of the attempt made last.
ErrorInv == WithRetry /\ lastErr # Nil =>
    attempt \in 1..(limit + 1) /\ lastErr = bare[attempt].error

\* Nothing happens any more to a call that has ended.
LEMMA EndedStays ==
    ASSUME TypeOK, [Next]_vars, NEW q \in Calls, Done(q)
    PROVE  bare'[q] = bare[q]
<1>1. CASE Environment \/ UNCHANGED vars
    BY <1>1, EnvironmentApart DEF Apart
<1>2. ASSUME NEW p \in Calls, Step(p) \/ \E name \in Names : Invoke(p, name)
      PROVE  bare'[q] = bare[q]
    <2>1. q # p
        BY <1>2, DoneStays
    <2> QED
        BY <1>2, <2>1, OthersApart DEF Apart
<1> QED
    BY <1>1, <1>2 DEF Next

LEMMA NextError ==
    ASSUME EInv, ErrorInv, [ExampleNext]_allVars
    PROVE  ErrorInv'
<1>1. /\ TypeOK /\ MainInv /\ [Next]_vars
      /\ attempt \in Nat /\ limit \in Nat /\ 1..(limit + 1) \subseteq Calls
    BY ProgramWeaves, RetryAssumption, ExamplesAssumption DEF EInv, SInv, IInv, MainInv, Typed
<1>2. request' = request /\ WithRetry' = WithRetry
    <2>1. ASSUME NEW p \in Calls, ExampleStep(p)
          PROVE  request' = request
        BY <2>1 DEF ExampleStep, RunHandler, Notify, RunBusiness, Advance, example
    <2>2. ASSUME Request \/ Begin \/ End \/ Loop \/ AttachConfirm \/ Expire \/ UNCHANGED allVars
          PROVE  request' = request
        BY <2>2 DEF Request, Begin, End, Loop, AttachConfirm, Expire, example, allVars
    <2> QED
        BY <2>1, <2>2 DEF ExampleNext, WithRetry
<1>3. ASSUME WithRetry, lastErr # Nil, UNCHANGED <<limit, attempt, lastErr>>
      PROVE  attempt' \in 1..(limit' + 1) /\ lastErr' = bare'[attempt'].error
    <2>1. attempt \in 1..(limit + 1) /\ attempt \in Calls /\ lastErr = bare[attempt].error
        BY <1>1, <1>3 DEF ErrorInv
    <2>2. Done(attempt)
        BY <1>1, <1>3, <2>1 DEF MainInv, RetryInv
    <2>3. bare'[attempt] = bare[attempt]
        BY <1>1, <2>1, <2>2, EndedStays
    <2> QED
        BY <1>3, <2>1, <2>3
<1>4. CASE UNCHANGED <<limit, attempt, lastErr>>
    BY <1>2, <1>3, <1>4 DEF ErrorInv
<1>5. CASE End
    <2> SUFFICES ASSUME WithRetry, lastErr' # Nil
                 PROVE  attempt' \in 1..(limit' + 1) /\ lastErr' = bare'[attempt'].error
        BY <1>2 DEF ErrorInv
    <2> DEFINE c == Current
    <2>1. phase = "calling" /\ Done(c) /\ bare' = bare
        BY <1>5 DEF End, vars, history
    <2>2. c = attempt + 1 /\ attempt <= limit /\ c \in Calls
        BY <1>1, <2>1 DEF MainInv, RetryInv, Current
    <2>3. CASE ret[c].kind = "panic"
        BY <1>3, <1>5, <2>3 DEF End, FunctionPanics
    <2>4. CASE ret[c].kind = "return"
        <3>1. ret[c].error = bare[c].error
            BY <2>1, <2>2, <2>4, AttemptJudged
        <3>2. lastErr' = ret[c].error /\ limit' = limit /\ attempt' = c
            BY <1>5, <2>2, <2>4, ExamplesAssumption DEF End, FunctionReturns
        <3> QED
            BY <1>1, <2>1, <2>2, <3>1, <3>2
    <2> QED
        BY <2>1, <2>2, <2>3, <2>4, NoGoexit
<1>6. ASSUME NEW p \in Calls, ExampleStep(p)
      PROVE  UNCHANGED <<limit, attempt, lastErr>>
    BY <1>6 DEF ExampleStep, RunHandler, Notify, RunBusiness, Advance, retryVars
<1>7. ASSUME Request \/ Begin \/ Loop \/ AttachConfirm \/ Expire \/ UNCHANGED allVars
      PROVE  UNCHANGED <<limit, attempt, lastErr>>
    BY <1>7 DEF Request, Enter, Begin, CallFunction, Loop, Test, Sleep, AttachConfirm, Expire,
                allVars, retryVars
<1> QED
    BY <1>4, <1>5, <1>6, <1>7 DEF ExampleNext

LEMMA ErrorInvariance == ExampleSpec => []ErrorInv
<1>1. ExampleInit => ErrorInv
    BY ExamplesAssumption DEF ExampleInit, RetryInit, ErrorInv
<1>2. EInv /\ ErrorInv /\ [ExampleNext]_allVars => ErrorInv'
    BY NextError
<1> QED
    BY <1>1, <1>2, ExampleInvariance, PTL DEF ExampleSpec

-----------------------------------------------------------------------------
(* The properties.                                                         *)

LEMMA KeptOutHolds == EInv => UnauthorizedKeptOut
<1> SUFFICES ASSUME EInv, NEW p \in Calls, TargetRan(p), Name(p) \in Range(Protected)
             PROVE  /\ Argument(p) \in Sessions \ stale
                    /\ Name(p) = "DeleteUser" => RoleOf[Argument(p)] = "admin"
    BY DEF UnauthorizedKeptOut, Name, Argument
<1>1. CallInv(p) /\ KeptInv(p) /\ ExpectedInv(p) /\ RequestInv
    BY PartsOf
<1>2. p = 1 /\ pc[p] # "idle"
    BY <1>1, Requested DEF CallInv, FreshInv, NothingRun, TargetRan, Runs
<1>3. Advised(p) /\ Prepared(Name(p), atLookup[p])
    BY <1>1, <1>2 DEF KeptInv
<1>4. Passes(p, "authenticate")
    <2>1. "authenticate" \in Ids(p, "Before")
        BY <1>3 DEF Prepared, Ids
    <2> QED
        BY <1>1, <1>3, <2>1, BeforePassed
<1>5. Name(p) = "DeleteUser" => Passes(p, "authorize")
    <2>1. Name(p) = "DeleteUser" => "authorize" \in Ids(p, "Before")
        BY <1>3 DEF Prepared, Ids
    <2> QED
        BY <1>1, <1>3, <2>1, BeforePassed
<1>6. Argument(p) \in Sessions \ stale
    BY <1>1, <1>4 DEF Passes, ExpectedInv, Expected
<1>7. Passes(p, "authorize") => RoleOf[Argument(p)] = "admin"
    BY <1>1 DEF Passes, ExpectedInv, Expected
<1> QED
    BY <1>5, <1>6, <1>7

LEMMA AuditHolds == EInv => AuditComplete
<1> SUFFICES ASSUME EInv, NEW p \in Calls, Done(p), Name(p) \in Range(Audited)
             PROVE  /\ Len(audit[p]) = 1
                    /\ audit[p][1].user = Passes(p, "authenticate")
    BY DEF AuditComplete, Name, Passes
<1>1. CallInv(p) /\ KeptInv(p) /\ ExpectedInv(p) /\ RequestInv /\ PartInv(p) /\ Typed
    BY PartsOf
<1>2. p = 1
    BY <1>1, Requested, Functions3
<1>3. Advised(p) /\ Prepared(Name(p), atLookup[p])
    BY <1>1, <1>2 DEF KeptInv, Done
<1>4. ~Cut(p, "After")
    BY <1>1, OnlyFailures DEF Cut, Runs
<1>5. RanAll(p, "After")
    BY <1>1, <1>3, <1>4 DEF CallInv, CleanupInv, Done
<1>6. "audit" \in Ids(p, "After")
    BY <1>3 DEF Prepared, Ids
<1>7. Handled(p, "audit")
    BY <1>4, <1>5, <1>6, PassedAll DEF Passes, Handled
<1>8. Len(audit[p]) = 1 /\ (audit[p][1].user <=> Passes(p, "authenticate"))
    BY <1>1, <1>7 DEF PartInv, AuditInv
<1>9. audit[p][1].user \in BOOLEAN
    <2> DEFINE Entries == [user : BOOLEAN, status : {"SUCCESS", "FAILED"}]
    <2>1. audit[p] \in Seq(Entries)
        BY <1>1 DEF Typed
    <2>2. audit[p][1] \in Entries
        <3> HIDE DEF Entries
        <3> QED
            BY <1>8, <2>1
    <2> QED
        BY <2>2
<1> QED
    BY <1>8, <1>9 DEF Passes

LEMMA OrdersHold == EInv => OrdersConfirmed
<1> SUFFICES ASSUME EInv, Name(1) = "CreateOrder", phase \in {"returned", "panicked"}
             PROVE  /\ TargetRan(1) <=> Argument(1) = "valid"
                    /\ Done(2) <=> TargetRan(1) /\ atLookup[1]["AfterReturning"] # <<>>
    BY DEF OrdersConfirmed, Name, Argument
<1>1. 1 \in Calls /\ 2 \in Calls
    BY ExamplesAssumption
<1>2. /\ TypeOK /\ CallInv(1) /\ KeptInv(1) /\ ExpectedInv(1) /\ OutcomeInv(1) /\ PartInv(1)
      /\ RequestInv /\ MainInv
    BY <1>1, PartsOf DEF EInv
<1>3. ~WithRetry /\ Argument(1) \in {"valid", "invalid"} /\ request[1].function = "CreateOrder"
    BY <1>1, <1>2, Requested DEF Name
<1>4. Done(1)
    BY <1>2, <1>3 DEF MainInv, SingleInv
<1>5. Advised(1) /\ Prepared("CreateOrder", atLookup[1])
    BY <1>2, <1>4 DEF KeptInv, Done
<1>6. TargetRan(1) => Argument(1) = "valid"
    <2> SUFFICES ASSUME TargetRan(1)
                 PROVE  Argument(1) # "invalid"
        BY <1>3
    <2>1. "validate" \in Ids(1, "Before")
        BY <1>5 DEF Prepared, Ids
    <2>2. Passes(1, "validate")
        BY <1>1, <1>2, <1>5, <2>1, BeforePassed
    <2> QED
        BY <1>2, <2>2 DEF Passes, ExpectedInv, Expected
<1>7. Argument(1) = "valid" => TargetRan(1)
    <2> SUFFICES ASSUME Argument(1) = "valid"
                 PROVE  TargetRan(1)
        OBVIOUS
    <2>1. AllOk(1)
        BY <1>1, <1>2, AllWell, Functions3
    <2> QED
        BY <1>2, <1>4, <2>1 DEF PartInv, ContextInv, OutcomeInv, InertInv, Early, Done
<1>8. ASSUME TargetRan(1), atLookup[1]["AfterReturning"] # <<>>
      PROVE  Done(2)
    <2>1. bare[1].error = Nil
        <3>1. bare[1].error \in ErrorsOf(request[1])
            BY <1>2, <1>8 DEF PartInv, ContextInv
        <3>2. ErrorsOf(request[1]) = {"nil"}
            BY <1>3 DEF ErrorsOf
        <3> QED
            BY <3>1, <3>2 DEF Nil
    <2>2. ~Cut(1, "AfterReturning")
        BY <1>1, <1>2, OnlyFailures DEF Cut, Runs
    <2>3. RanAll(1, "AfterReturning")
        BY <1>2, <1>4, <1>5, <1>8, <2>1, <2>2 DEF PartInv, ReturningInv, Worked, Done
    <2>4. "confirm" \in Ids(1, "AfterReturning")
        <3> DEFINE list == atLookup[1]["AfterReturning"]
        <3>1. list \in Seq(Advice)
            BY <1>1, <1>2 DEF TypeOK, AdviceChain, AdviceTypes
        <3>2. 1 \in DOMAIN list
            <4> HIDE DEF list
            <4> QED
                BY <1>8, <3>1 DEF list
        <3>3. list[1].id \in Ids(1, "AfterReturning")
            BY <3>2 DEF Ids, IdsOf, Range
        <3>4. Ids(1, "AfterReturning") \subseteq {"confirm"}
            BY <1>5, Functions3 DEF Prepared, Ids
        <3> QED
            BY <3>3, <3>4
    <2>5. Passes(1, "confirm")
        BY <1>1, <2>2, <2>3, <2>4, PassedAll
    <2> QED
        BY <1>2, <2>5 DEF Passes, ExpectedInv, Expected
<1>9. ASSUME Done(2)
      PROVE  TargetRan(1) /\ atLookup[1]["AfterReturning"] # <<>>
    <2>1. TargetRan(1) /\ "confirm" \in Ids(1, "AfterReturning")
        BY <1>2, <1>3, <1>9 DEF MainInv, NotifyInv, Done
    <2> QED
        BY <2>1 DEF Ids, IdsOf, Range
<1> QED
    BY <1>6, <1>7, <1>8, <1>9

LEMMA RetriesHold == EInv /\ ErrorInv => RetriesAccounted
<1> SUFFICES ASSUME EInv, ErrorInv, WithRetry
             PROVE  RetriesAccounted
    BY DEF RetriesAccounted
<1> DEFINE begun     == {p \in Calls : pc[p] # "idle"}
           succeeded == {p \in begun : TargetRan(p) /\ bare[p].error = Nil}
<1>1. MainInv /\ attempt \in Nat /\ limit \in Nat /\ Current = attempt + 1
    BY RetryAssumption DEF EInv, MainInv, Typed, Current
<1>2. \A p \in 1..attempt : Done(p) /\ ~Worked(p)
    BY <1>1 DEF MainInv, RetryInv
<1>3. \A p \in begun : p \in 1..attempt \/ p = Current
    BY <1>1 DEF MainInv, RetryInv
<1>4. succeeded = {p \in begun : Worked(p)}
    BY DEF Worked
<1>5. \A p \in succeeded : p = Current
    BY <1>2, <1>3, <1>4
<1>6. phase = "returned" /\ lastErr = Nil => succeeded = {Current}
    <2> SUFFICES ASSUME phase = "returned", lastErr = Nil
                 PROVE  Current \in succeeded
        BY <1>5
    <2>1. Current \in Calls /\ Done(Current) /\ Worked(Current)
        BY <1>1 DEF MainInv, RetryInv
    <2> QED
        BY <1>4, <2>1 DEF Done
<1>7. phase = "returned" /\ lastErr # Nil =>
          /\ succeeded = {} /\ begun = 1..(limit + 1)
          /\ lastErr = bare[limit + 1].error
    <2> SUFFICES ASSUME phase = "returned", lastErr # Nil
                 PROVE  /\ succeeded = {} /\ begun = 1..(limit + 1)
                        /\ lastErr = bare[limit + 1].error
        OBVIOUS
    <2>1. attempt = limit + 1 /\ begun \subseteq 1..attempt
        BY <1>1 DEF MainInv, RetryInv
    <2>2. 1..(limit + 1) \subseteq Calls
        BY <1>1, ExamplesAssumption DEF MainInv, Typed
    <2>3. 1..attempt \subseteq begun
        BY <1>2, <2>1, <2>2 DEF Done
    <2>4. lastErr = bare[limit + 1].error
        BY <2>1 DEF ErrorInv
    <2> QED
        BY <1>2, <1>4, <2>1, <2>3, <2>4
<1> QED
    BY <1>5, <1>6, <1>7 DEF RetriesAccounted

\* A program uses the library as it may be used: each of its steps is one of module
\* Weave, where a handler does what the program's handlers do, or leaves the calls
\* alone; so what is proved of all clients holds in the programs.
THEOREM ExamplesAreWoven == ExampleSpec => Spec
<1>1. ExampleInit => Init
    BY DEF ExampleInit
<1> QED
    BY <1>1, ExampleInvariance, ProgramWeaves, PTL DEF ExampleSpec, Spec

\* authenticate and authorize keep out who is not let in (03_authentication), also
\* with sessions that expire at any moment and whatever the priorities of others.
THEOREM TheUnauthorizedAreKeptOut == ExampleSpec => []UnauthorizedKeptOut
BY ExampleInvariance, KeptOutHolds, PTL

\* No handler of the three programs meets metadata, or results, that are not there.
THEOREM HandlersDoNotTrip == ExampleSpec => []NoHandlerTrips
<1>1. EInv => NoHandlerTrips
    BY PartsOf DEF ExpectedInv, Expected, NoHandlerTrips, Argument
<1> QED
    BY <1>1, ExampleInvariance, PTL

\* After advice records every call of an audited function, once.
THEOREM AuditIsComplete == ExampleSpec => []AuditComplete
BY ExampleInvariance, AuditHolds, PTL

\* Orders and notifications agree (01_basic_usage).
THEOREM OrdersAreConfirmed == ExampleSpec => []OrdersConfirmed
BY ExampleInvariance, OrdersHold, PTL

\* WithRetry accounts for its attempts (05_retry_pattern), for any number of retries.
THEOREM RetriesAreAccounted == ExampleSpec => []RetriesAccounted
BY ExampleInvariance, ErrorInvariance, RetriesHold, PTL
=============================================================================
