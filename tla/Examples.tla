------------------------------ MODULE Examples ------------------------------
(***************************************************************************)
(* The example programs 01_basic_usage, 03_authentication and              *)
(* 05_retry_pattern: one call that the main goroutine makes, its handlers  *)
(* as the programs write them.  Every step of a call is a step of module   *)
(* Weave with the choice that Weave leaves open, what a handler does, made *)
(* as the handler makes it.                                                *)
(*                                                                         *)
(* Call 1 is the first one made.  Under WithRetry, call n + 1 is the n-th  *)
(* retry; otherwise call 2 is the one that the handler "confirm" of the    *)
(* first makes while it runs.                                              *)
(***************************************************************************)
EXTENDS WeaveProperties, ExampleSetup, Retry

ASSUME ExamplesAssumption ==
    /\ \A l \in RetryLimits : 1..(l + 1) \subseteq Calls
    /\ NoError = Nil /\ {1, 2} \subseteq Calls
    /\ \A r \in Requests \cup {Notification} : r.function \in Names \ {EmptyName}
    /\ Confirm \in Advices

\* What the set-up functions of the programs leave behind.
ASSUME SetupAssumption ==
    \A r \in InitialRegistries :
        /\ Unshared(r)
        /\ \A n \in Registered(r) : Prepared(n, r.chains[Lookup(r, n)])

VARIABLES
    request,    \* what each call is called with
    metadata,   \* the keys of ctx.Metadata that are set
    audit,      \* what the audit handler has recorded of each call
    expired,    \* the sessions that have expired
    stale       \* history: those that had when the last call began

example == <<request, metadata, audit, expired, stale>>
allVars == <<vars, retryVars, example>>

WithRetry == request[1] \in RetryRequests
Current   == attempt + 1

ExampleInit ==
    /\ \E r \in Requests :
          request = [p \in Calls |->
              IF p = 1 \/ r \in RetryRequests THEN r ELSE Notification]
    /\ wrapper = [p \in Calls |-> WrapperOf[request[p].function]]
    /\ Init /\ RetryInit
    /\ Lookup(reg, request[1].function) # NoChain
    /\ metadata = [p \in Calls |-> {}]
    /\ audit = [p \in Calls |-> <<>>]
    /\ expired = {"expired_token"}
    /\ stale = {}

-----------------------------------------------------------------------------
(* The handlers.                                                           *)

\* Faulty: the expiry is not looked at.
ValidatesKnown(token) == token \in Sessions

Validates(token) == token \in Sessions \ expired

\* How a handler ends.  Handlers read what others have left in the metadata, and
\* the results, without checking that it is there.
Outcome(p, id) ==
    CASE id = "validate" /\ request[p].argument = "invalid" -> "error"
      [] id = "confirm" /\ (ctx[p].results = <<>> \/ ret[2].kind = "panic") -> "panic"
      [] id = "authenticate" /\ ~Validates(request[p].argument) -> "error"
      [] id = "authorize" /\ ~({"userID", "role"} \subseteq metadata[p]) -> "panic"
      [] id = "authorize" /\ {"userID", "role"} \subseteq metadata[p]
            /\ RoleOf[request[p].argument] # "admin" -> "error"
      [] id = "success log" /\ "userID" \notin metadata[p] -> "panic"
      [] id = "monitor" /\ "start" \notin metadata[p] -> "panic"
      [] id = "payment log" /\ request[p].argument = "short card" -> "panic"
      [] OTHER -> "ok"

\* The keys that a handler which returns nil sets.
Sets(id) ==
    CASE id = "authenticate" -> {"userID", "role"}
      [] id = "timer start"  -> {"start"}
      [] OTHER               -> {}

\* What the audit handler records.
AuditRecord(p) ==
    [user |-> "userID" \in metadata[p],
     status |-> IF ctx[p].error = Nil THEN "SUCCESS" ELSE "FAILED"]

RunHandler(p) ==
    LET id == Head(todo[p]).id
    IN  /\ pc[p] \in AdviceTypes /\ todo[p] # <<>>
        /\ id = "confirm" => Done(2)
        /\ ctx' = ctx
        /\ CASE Outcome(p, id) = "ok"    -> HandlerReturns(p)
             [] Outcome(p, id) = "error" -> HandlerFails(p)
             [] Outcome(p, id) = "panic" -> HandlerRaises(p)
        /\ metadata' = [metadata EXCEPT ![p] =
              IF Outcome(p, id) = "ok" THEN @ \cup Sets(id) ELSE @]
        /\ audit' = [audit EXCEPT ![p] = IF id = "audit" THEN Append(@, AuditRecord(p)) ELSE @]
        /\ UNCHANGED <<request, expired, stale, retryVars>>

\* The handler "confirm" calls SendNotification and waits for it.
Notify(p) ==
    /\ pc[p] = "AfterReturning" /\ todo[p] # <<>> /\ Head(todo[p]).id = "confirm"
    /\ Invoke(2, "SendNotification")
    /\ UNCHANGED <<example, retryVars>>

\* The business function.
RunBusiness(p) ==
    /\ TargetReturns(p) /\ bare'[p].error \in ErrorsOf(request[p])
    /\ UNCHANGED <<example, retryVars>>

\* The steps of executeWithAdvice and of the WrapN closure in between.
Advance(p) ==
    /\ \/ StartBefore(p) \/ FinishBefore(p) \/ Complete(p)
       \/ Recover(p) \/ StartAfter(p) \/ FinishList(p) \/ Epilogue(p)
    /\ UNCHANGED <<example, retryVars>>

ExampleStep(p) == RunHandler(p) \/ Notify(p) \/ RunBusiness(p) \/ Advance(p)

-----------------------------------------------------------------------------
(* The main goroutine.                                                     *)

\* It calls the function or, in 05_retry_pattern, what WithRetry returned.
Request ==
    /\ IF WithRetry THEN Enter
       ELSE /\ phase = "idle" /\ phase' = "ready"
            /\ UNCHANGED <<limit, attempt, lastErr>>
    /\ UNCHANGED <<vars, example>>

Begin ==
    /\ CallFunction
    /\ Invoke(Current, request[Current].function)
    /\ stale' = expired
    /\ UNCHANGED <<request, metadata, audit, expired>>

End ==
    /\ phase = "calling" /\ Done(Current)
    /\ CASE ret[Current].kind = "panic" -> FunctionPanics
         [] ret[Current].kind = "return" /\ WithRetry -> FunctionReturns(ret[Current].error)
         [] OTHER -> /\ phase' = "returned"
                     /\ lastErr' = ret[Current].error
                     /\ UNCHANGED <<limit, attempt>>
    /\ UNCHANGED <<vars, example>>

Loop == (Test \/ Sleep) /\ UNCHANGED <<vars, example>>

\* Example 4 of 01_basic_usage attaches one more handler before it calls.
AttachConfirm ==
    /\ phase = "idle" /\ Lookup(reg, "CreateOrder") # NoChain
    /\ AttachAdvice("CreateOrder", Confirm)
    /\ UNCHANGED <<pc, ret, frame, fixed, history, example, retryVars>>

Expire ==
    /\ request[1].argument \in Sessions \ expired
    /\ expired' = expired \cup {request[1].argument}
    /\ UNCHANGED <<vars, retryVars, request, metadata, audit, stale>>

ExampleNext ==
    \/ \E p \in Calls : ExampleStep(p)
    \/ Request \/ Begin \/ End \/ Loop
    \/ AttachConfirm \/ Expire

\* A call that was begun goes on, and so does the goroutine that waits for it.
ExampleSpec ==
    /\ ExampleInit /\ [][ExampleNext]_allVars
    /\ \A p \in Calls : WF_allVars(ExampleStep(p))
    /\ WF_allVars(Begin \/ End \/ Loop)

-----------------------------------------------------------------------------
(* Properties.                                                             *)

\* A token that is unknown, or was expired when the call began, lets nobody reach
\* one of the three functions, and DeleteUser takes an admin: three handlers that
\* share nothing but the metadata, and an error that becomes a panic, see to it.
UnauthorizedKeptOut ==
    \A p \in Calls : TargetRan(p) /\ request[p].function \in Range(Protected) =>
        /\ request[p].argument \in Sessions \ stale
        /\ request[p].function = "DeleteUser" => RoleOf[request[p].argument] = "admin"

\* No handler trips over metadata or results that another handler or the function
\* was to leave there, on whatever path it is reached: the one handler that panics
\* is the one that cuts a card token shorter than 8 characters.
NoHandlerTrips ==
    \A p \in Calls : \A i \in DOMAIN ran[p] :
        ran[p][i].outcome = "panic" =>
            ran[p][i].id = "payment log" /\ request[p].argument = "short card"

\* Every call of an audited function that has ended, rejected ones too, has left
\* exactly one record; it names the user exactly if the token was accepted.
AuditComplete ==
    \A p \in Calls : Done(p) /\ request[p].function \in Range(Audited) =>
        /\ Len(audit[p]) = 1
        /\ audit[p][1].user =
              (\E i \in DOMAIN ran[p] : ran[p][i].id = "authenticate" /\ ran[p][i].outcome = "ok")

\* Line 110 of 03_authentication, "[AUDIT] Status: %s": a call that is recorded as
\* a SUCCESS has run the function.
AuditTruthful ==
    \A p \in Calls : Done(p) =>
        \A i \in DOMAIN audit[p] : audit[p][i].status = "SUCCESS" => TargetRan(p)

\* An order is created only from valid arguments and, once the handler "confirm" is
\* attached, a notification goes out exactly for the orders created: by the time
\* CreateOrder returns, once, through a wrapped call made inside another.
OrdersConfirmed ==
    request[1].function = "CreateOrder" /\ phase \in {"returned", "panicked"} =>
        /\ TargetRan(1) <=> request[1].argument = "valid"
        /\ Done(2) <=> TargetRan(1) /\ atLookup[1]["AfterReturning"] # <<>>

\* WithRetry never repeats what has succeeded, and answers for what happened: it
\* returns nil after the one attempt that succeeded, the last, and after maxRetries
\* + 1 attempts that all failed the error of the last of them.
RetriesAccounted ==
    WithRetry =>
        LET begun     == {p \in Calls : pc[p] # "idle"}
            succeeded == {p \in begun : TargetRan(p) /\ bare[p].error = Nil}
        IN  /\ \A p \in succeeded : p = Current
            /\ phase = "returned" /\ lastErr = Nil => succeeded = {Current}
            /\ phase = "returned" /\ lastErr # Nil =>
                  /\ succeeded = {} /\ begun = 1..(limit + 1)
                  /\ lastErr = bare[limit + 1].error

\* Every request is answered, also through WithRetry and through the nested call.
RequestAnswered == phase # "idle" ~> phase \in {"returned", "panicked"}
=============================================================================
