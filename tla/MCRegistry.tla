----------------------------- MODULE MCRegistry -----------------------------
(***************************************************************************)
(* Instances of Registry for TLC.                                          *)
(***************************************************************************)
EXTENDS Registry

Logging == [type |-> "Before", priority |-> 1, id |-> "logging"]

CallsOf(methods, names) == [method : methods, name : names, advice : {Logging}]

\* Every method on one name and, where it is treated apart, on the empty name; a
\* second function is registered beside it.
AllOperations ==
    CallsOf(Methods, {"main"})
        \cup CallsOf({"Register", "RegisterOrGet", "AddAdvice", "GetAdviceChain"}, {EmptyName})
        \cup CallsOf({"RegisterOrGet", "GetAdviceCount"}, {"other"})
=============================================================================
