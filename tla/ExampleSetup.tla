---------------------------- MODULE ExampleSetup ----------------------------
(***************************************************************************)
(* What the example programs set up before their first call: the functions *)
(* they register, the advice they attach, and the WrapN function each is   *)
(* wrapped with.                                                           *)
(*                                                                         *)
(*   Basic          : examples/01_basic_usage                              *)
(*   Authentication : examples/03_authentication                           *)
(*   Retried        : examples/05_retry_pattern                            *)
(***************************************************************************)
EXTENDS RegistryMap, SequencesExt

On(functions, type, priority, id) ==
    [functions |-> functions, advice |-> [type |-> type, priority |-> priority, id |-> id]]

RegisterAll(functions) ==
    FoldLeft(LAMBDA r, n : MustRegister(r, n, Lookup(r, n)).reg, NewRegistry, functions)

\* One loop of a setup function: MustAddAdvice for each of the functions.
AttachAll(reg, step) ==
    FoldLeft(LAMBDA r, n : MustAddAdvice(r, n, step.advice, Lookup(r, n)).reg, reg, step.functions)

Program(functions, steps) == FoldLeft(AttachAll, RegisterAll(functions), steps)

-----------------------------------------------------------------------------

BasicFunctions == <<"GetUser", "CreateOrder", "ValidateUser", "SendNotification">>

Basic == Program(BasicFunctions,
    <<On(<<"GetUser", "CreateOrder", "SendNotification">>, "Before", 100, "log start"),
      On(<<"GetUser", "CreateOrder", "SendNotification">>, "After", 100, "log end"),
      On(<<"GetUser", "CreateOrder">>, "Before", 90, "timer start"),
      On(<<"GetUser", "CreateOrder">>, "After", 90, "timer end"),
      On(<<"CreateOrder">>, "Before", 110, "validate"),
      On(BasicFunctions, "AfterThrowing", 100, "recover")>>)

\* Example 4 attaches it later.
Confirm == [type |-> "AfterReturning", priority |-> 50, id |-> "confirm"]

Protected == <<"GetUserData", "DeleteUser", "UpdateSettings">>
Audited   == <<"DeleteUser", "UpdateSettings">>

Authentication == Program(Protected,
    <<On(Protected, "Before", 100, "authenticate"),
      On(<<"DeleteUser">>, "Before", 90, "authorize"),
      On(Audited, "After", 100, "audit"),
      On(<<"GetUserData">>, "AfterReturning", 80, "success log")>>)

Retried == Program(<<"SendEmail", "ProcessPayment">>,
    <<On(<<"SendEmail", "ProcessPayment">>, "Before", 100, "timer start"),
      On(<<"SendEmail", "ProcessPayment">>, "After", 100, "monitor"),
      On(<<"SendEmail">>, "Before", 90, "email log"),
      On(<<"ProcessPayment">>, "Before", 90, "payment log")>>)

WrapperOf ==
    [GetUser |-> "Wrap1RE", CreateOrder |-> "Wrap2RE", ValidateUser |-> "Wrap1E",
     SendNotification |-> "Wrap2",
     GetUserData |-> "Wrap2RE", DeleteUser |-> "Wrap2E", UpdateSettings |-> "Wrap2E",
     SendEmail |-> "Wrap2E", ProcessPayment |-> "Wrap2RE"]

-----------------------------------------------------------------------------
(* What the handlers rely on: what is attached to which function, as what  *)
(* type of advice, and what comes first.                                   *)

IdsOf(list) == {a.id : a \in Range(list)}

\* The handler id is run before those of the others that are in the same list.
Precedes(id, others, list) ==
    \A a, b \in Range(list) : a.id = id /\ b.id \in others => a.priority > b.priority

Prepared(n, chain) ==
    LET before == IdsOf(chain["Before"])
        after  == IdsOf(chain["After"])
    IN  /\ chain["Around"] = <<>>
        /\ \A t \in AdviceTypes : \A id \in IdsOf(chain[t]) :
              /\ id \in {"validate", "authenticate", "authorize", "timer start", "payment log"}
                    => t = "Before"
              /\ id \in {"audit", "monitor"} => t = "After"
              /\ id \in {"confirm", "success log"} => t = "AfterReturning"
        /\ "validate" \in before <=> n = "CreateOrder"
        /\ "authenticate" \in before <=> n \in Range(Protected)
        /\ "authorize" \in before <=> n = "DeleteUser"
        /\ "audit" \in after <=> n \in Range(Audited)
        /\ Precedes("authenticate", {"authorize"}, chain["Before"])
        /\ "monitor" \in after =>
              /\ "timer start" \in before
              /\ Precedes("timer start", before \ {"timer start"}, chain["Before"])
        /\ IdsOf(chain["AfterReturning"]) \subseteq
              (CASE n = "CreateOrder"       -> {"confirm"}
                 [] n \in Range(Protected) -> {"success log"}
                 [] OTHER                  -> {})

-----------------------------------------------------------------------------
(* Calls: the function and what matters of its arguments.                  *)

\* The sessions, with their roles; one has expired already.
RoleOf   == [valid_token |-> "admin", user_token |-> "user", expired_token |-> "user"]
Sessions == DOMAIN RoleOf
Tokens   == Sessions \cup {"invalid_token"}

BasicRequests ==
    [function : {"GetUser", "CreateOrder", "ValidateUser"}, argument : {"valid", "invalid"}]

AuthRequests == [function : Range(Protected), argument : Tokens]

RetryRequests ==
    [function : {"SendEmail"}, argument : {"message"}]
        \cup [function : {"ProcessPayment"}, argument : {"card", "short card"}]

Requests == BasicRequests \cup AuthRequests \cup RetryRequests

Notification == [function |-> "SendNotification", argument |-> "message"]

\* What the business function behind a request can return as its error; SMTP
\* server, network and payment gateway fail now and then.
ErrorsOf(r) ==
    CASE r.function = "SendEmail" -> {"nil", "timeout"}
      [] r.function = "ProcessPayment" -> {"nil", "timeout", "unavailable"}
      [] r.function \in {"GetUser", "ValidateUser"} /\ r.argument = "invalid" -> {"failed"}
      [] OTHER -> {"nil"}
=============================================================================
