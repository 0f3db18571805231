----------------------------- MODULE MCExamples -----------------------------
(***************************************************************************)
(* The three programs for TLC.                                             *)
(***************************************************************************)
EXTENDS Examples

Functions == Range(BasicFunctions) \cup Range(Protected) \cup {"SendEmail", "ProcessPayment"}

AllNames == Functions \cup {""}

Programs == {Basic, Authentication, Retried}

Handlers ==
    {"log start", "log end", "timer start", "timer end", "validate", "recover", "confirm",
     "authenticate", "authorize", "audit", "success log", "monitor", "email log", "payment log"}

ConfirmOnly == {Confirm}

Wrapped == Range(WrapperOf)
=============================================================================
