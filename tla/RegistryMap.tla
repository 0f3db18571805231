---------------------------- MODULE RegistryMap -----------------------------
(***************************************************************************)
(* aspect/registry.go without its lock: what each method of Registry reads *)
(* and writes inside its critical section, as an operator on the value     *)
(*                                                                         *)
(*   reg.entries : the map from function names to chain pointers,          *)
(*   reg.chains  : every AdviceChain allocated so far, in allocation order.*)
(*                                                                         *)
(* A pointer to a chain is its index in reg.chains.  A chain that was      *)
(* unregistered stays there: goroutines may still hold its pointer.        *)
(*                                                                         *)
(* A method that looks its name up takes the pointer it found as chain, so *)
(* that module Registry can let the lookup and the rest be separate steps. *)
(* Its result is the registry it leaves and the reply its caller gets.     *)
(***************************************************************************)
EXTENDS Advice, FiniteSets

CONSTANTS
    Names,      \* the function names callers use, ...
    EmptyName   \* ... one of which is the empty string

ASSUME NamesAssumption == EmptyName \in Names /\ IsFiniteSet(Names)

NoChain == 0

RegistryRecord ==
    {r \in [entries : [Names -> Nat], chains : Seq(AdviceChain)] :
        \A n \in Names : r.entries[n] \in 0..Len(r.chains)}

NewRegistry == [entries |-> [n \in Names |-> NoChain], chains |-> <<>>]

Lookup(reg, name) == reg.entries[name]

Registered(reg) == {n \in Names : Lookup(reg, n) # NoChain}

\* The empty name has no chain, and two names never share one.
Unshared(reg) ==
    /\ Lookup(reg, EmptyName) = NoChain
    /\ \A m, n \in Registered(reg) : m # n => Lookup(reg, m) # Lookup(reg, n)

-----------------------------------------------------------------------------
(* Replies.                                                                *)

Failures == {"none", "empty name", "already registered", "not registered", "panic"}

Ok == [error |-> "none", chain |-> NoChain, names |-> {}, count |-> 0, found |-> FALSE]
Failed(why) == [Ok EXCEPT !.error = why]

Reply == [error : Failures, chain : Nat, names : SUBSET Names, count : Nat, found : BOOLEAN]

Result(reg, reply) == [reg |-> reg, reply |-> reply]

\* Faulty: the pointer stored is not that of the new chain.
WithNewChainDangling(reg, name) ==
    [entries |-> [reg.entries EXCEPT ![name] = Len(reg.chains) + 2],
     chains  |-> Append(reg.chains, NewAdviceChain)]

\* Faulty: a chain that no name leads to any more is emptied and used again.
WithNewChainRecycled(reg, name) ==
    LET used == {Lookup(reg, n) : n \in Names}
        i    == CHOOSE k \in 1..(Len(reg.chains) + 1) : k \notin used
    IN  [entries |-> [reg.entries EXCEPT ![name] = i],
         chains  |-> IF i > Len(reg.chains) THEN Append(reg.chains, NewAdviceChain)
                     ELSE [reg.chains EXCEPT ![i] = NewAdviceChain]]

\* The registry with a new, empty chain under name.
WithNewChain(reg, name) ==
    [entries |-> [reg.entries EXCEPT ![name] = Len(reg.chains) + 1],
     chains  |-> Append(reg.chains, NewAdviceChain)]

-----------------------------------------------------------------------------
(* The methods.                                                            *)

\* Faulty: the empty name is let through.
RegisterAnyName(reg, name, chain) ==
    IF chain # NoChain THEN Result(reg, Failed("already registered"))
    ELSE Result(WithNewChain(reg, name), Ok)

Register(reg, name, chain) ==
    CASE name = EmptyName ->
           Result(reg, Failed("empty name"))
      [] name # EmptyName /\ chain # NoChain ->
           Result(reg, Failed("already registered"))
      [] OTHER ->
           Result(WithNewChain(reg, name), Ok)

\* The empty name panics, with the unlock deferred.
RegisterOrGet(reg, name, chain) ==
    CASE name = EmptyName ->
           Result(reg, Failed("panic"))
      [] name # EmptyName /\ chain # NoChain ->
           Result(reg, [Ok EXCEPT !.chain = chain])
      [] OTHER ->
           Result(WithNewChain(reg, name), [Ok EXCEPT !.chain = Len(reg.chains) + 1])

\* MustRegister and MustAddAdvice turn the error of Register and AddAdvice into
\* a panic.
Must(result) ==
    IF result.reply.error = "none" THEN result
    ELSE [result EXCEPT !.reply = Failed("panic")]

MustRegister(reg, name, chain) == Must(Register(reg, name, chain))

\* chain.Add through a pointer to the chain.
AddTo(reg, chain, a) ==
    [reg EXCEPT !.chains[chain] = Add(@, a)]

AddAdvice(reg, name, a, chain) ==
    CASE name = EmptyName ->
           Result(reg, Failed("empty name"))
      [] name # EmptyName /\ chain = NoChain ->
           Result(reg, Failed("not registered"))
      [] OTHER ->
           Result(AddTo(reg, chain, a), Ok)

MustAddAdvice(reg, name, a, chain) == Must(AddAdvice(reg, name, a, chain))

GetAdviceChain(reg, name, chain) ==
    CASE name = EmptyName ->
           Result(reg, Failed("empty name"))
      [] name # EmptyName /\ chain = NoChain ->
           Result(reg, Failed("not registered"))
      [] OTHER ->
           Result(reg, [Ok EXCEPT !.chain = chain])

IsRegistered(reg, name, chain) ==
    Result(reg, [Ok EXCEPT !.found = chain # NoChain])

Unregister(reg, name) ==
    Result([reg EXCEPT !.entries[name] = NoChain], Ok)

ListRegistered(reg) ==
    Result(reg, [Ok EXCEPT !.names = Registered(reg)])

Clear(reg) ==
    Result([reg EXCEPT !.entries = [n \in Names |-> NoChain]], Ok)

CountRegistered(reg) ==
    Result(reg, [Ok EXCEPT !.count = Cardinality(Registered(reg))])

GetAdviceCount(reg, name, chain) ==
    IF chain = NoChain THEN Result(reg, Ok)
    ELSE Result(reg, [Ok EXCEPT !.count = Count(reg.chains[chain])])

-----------------------------------------------------------------------------
(* Calls of the methods.                                                   *)

Lookups == {"Register", "RegisterOrGet", "MustRegister", "AddAdvice", "MustAddAdvice",
            "GetAdviceChain", "IsRegistered", "GetAdviceCount"}
Methods == Lookups \cup {"Unregister", "ListRegistered", "Clear", "Count"}

\* Those that take the write lock; the others take the read lock.
Writers == {"Register", "RegisterOrGet", "MustRegister", "AddAdvice", "MustAddAdvice",
            "Unregister", "Clear"}

\* A client that makes no call.
NoCall == [method |-> "none"]

\* What the call op does to reg, with chain the pointer its lookup found.
Apply(reg, op, chain) ==
    CASE op.method = "Register"       -> Register(reg, op.name, chain)
      [] op.method = "RegisterOrGet"  -> RegisterOrGet(reg, op.name, chain)
      [] op.method = "MustRegister"   -> MustRegister(reg, op.name, chain)
      [] op.method = "AddAdvice"      -> AddAdvice(reg, op.name, op.advice, chain)
      [] op.method = "MustAddAdvice"  -> MustAddAdvice(reg, op.name, op.advice, chain)
      [] op.method = "GetAdviceChain" -> GetAdviceChain(reg, op.name, chain)
      [] op.method = "IsRegistered"   -> IsRegistered(reg, op.name, chain)
      [] op.method = "GetAdviceCount" -> GetAdviceCount(reg, op.name, chain)
      [] op.method = "Unregister"     -> Unregister(reg, op.name)
      [] op.method = "ListRegistered" -> ListRegistered(reg)
      [] op.method = "Clear"          -> Clear(reg)
      [] op.method = "Count"          -> CountRegistered(reg)
=============================================================================
