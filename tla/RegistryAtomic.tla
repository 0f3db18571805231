--------------------------- MODULE RegistryAtomic ---------------------------
(***************************************************************************)
(* What a Registry promises to the goroutines that share it: every method  *)
(* takes effect in one step between its call and its return.  That calls   *)
(* return is stated beside it, as EveryCallReturns in module Registry.     *)
(***************************************************************************)
EXTENDS RegistryMap

CONSTANTS
    Clients,        \* goroutines that call methods of the registry
    Operations      \* the calls they make: records [method, name, advice]

VARIABLES
    reg,
    status,     \* "idle", "called" or "replied"
    op,         \* the call a client makes
    reply       \* the reply to it

vars == <<reg, status, op, reply>>

Init ==
    /\ reg = NewRegistry
    /\ status = [c \in Clients |-> "idle"]
    /\ op = [c \in Clients |-> NoCall]
    /\ reply = [c \in Clients |-> Ok]

Call(c) ==
    /\ status[c] = "idle"
    /\ status' = [status EXCEPT ![c] = "called"]
    /\ \E o \in Operations : op' = [op EXCEPT ![c] = o]
    /\ UNCHANGED <<reg, reply>>

Perform(c) ==
    LET result == Apply(reg, op[c], Lookup(reg, op[c].name))
    IN  /\ status[c] = "called"
        /\ status' = [status EXCEPT ![c] = "replied"]
        /\ reg' = result.reg
        /\ reply' = [reply EXCEPT ![c] = result.reply]
        /\ UNCHANGED op

Return(c) ==
    /\ status[c] = "replied"
    /\ status' = [status EXCEPT ![c] = "idle"]
    /\ op' = [op EXCEPT ![c] = NoCall]
    /\ reply' = [reply EXCEPT ![c] = Ok]
    /\ UNCHANGED reg

Next == \E c \in Clients : Call(c) \/ Perform(c) \/ Return(c)

Spec == Init /\ [][Next]_vars
=============================================================================
