------------------------------- MODULE Weave --------------------------------
(***************************************************************************)
(* aspect/wrap.go: calls of wrapped functions.  Each member of Calls is    *)
(* one call; calls run concurrently with each other and with goroutines    *)
(* that register functions and attach advice.                              *)
(*                                                                         *)
(* The program counter of a call follows executeWithAdvice:                *)
(*                                                                         *)
(*   "idle"       not called yet                                           *)
(*   "bare"       the name is not registered: run the target, no advice    *)
(*   "found"      the chain was found, the defers are set up               *)
(*   an advice type: its handlers are being run; todo holds the rest       *)
(*   "target"     the target function is to run                            *)
(*   "completed"  the target returned or was skipped                       *)
(*   "recover"    the body is left: the defer with recover() is to run     *)
(*   "cleanup"    the defer that runs the After advice is to run           *)
(*   "epilogue"   executeWithAdvice is left, back in the WrapN closure     *)
(*   "done"       the caller has its answer                                *)
(*                                                                         *)
(* Handlers and the target are opaque: what they do is chosen among the    *)
(* outcomes and effects that the constants allow.  Go has four outcomes of *)
(* a handler: return nil, return an error, panic, and runtime.Goexit.      *)
(*                                                                         *)
(* Registry operations are atomic here, as module Registry justifies.      *)
(***************************************************************************)
EXTENDS Context, RegistryMap

CONSTANTS
    Calls,              \* calls of wrapped functions
    WrapperNames,       \* the WrapN functions they were wrapped with
    InitialRegistries,  \* the registries that start-up code builds
    Advices,            \* arguments of the AddAdvice calls made later
    MaxChains,          \* bound: chains ever allocated
    TargetKinds,        \* how the target may end: "return", "panic", "goexit"
    TargetValues,       \* results the target returns
    TargetErrors,       \* errors the target returns
    HandlerOutcomes,    \* how a handler may end: "ok", "error", "panic", "goexit"
    HandlerValues,      \* values handlers store as result 0
    ForeignValues,      \* those of them that are not of the target's result type
    HandlerErrors,      \* what handlers store in ctx.Error, Nil if they reset it
    HandlerPanics,      \* what handlers store in ctx.PanicValue
    HandlerSkips        \* values handlers store in ctx.Skipped

VARIABLES
    reg,        \* the global registry
    pc, wrapper, chain, ctx, todo,
    exit,       \* how the code run so far is being left: return, panic or Goexit
    local,      \* the variables result and err captured by the WrapN closure
    ret,        \* what the caller gets
    ran,        \* history: the handlers and the target run, with their outcome
    inert,      \* history: no handler has failed or changed the context
    bare,       \* history: the outcome of the target
    atLookup    \* history: the chain as it was when it was looked up

frame   == <<ctx, todo, exit, local>>
fixed   == <<wrapper, chain, atLookup>>
history == <<ran, inert, bare>>
vars    == <<reg, pc, ret, frame, fixed, history>>

-----------------------------------------------------------------------------
(* Outcomes and values.                                                    *)

Zero == "zero"          \* the zero value of the target's result type

Phases == AdviceTypes \cup {"target"}

ResultValues == TargetValues \cup HandlerValues \cup {Zero}
ErrorValues  == TargetErrors \cup HandlerErrors

\* A panic raised by a handler or by the target has the phase as its value.
Raised == Phases \cup {"before advice failed", "around advice failed", "type assertion"}
PanicValues == Raised \cup HandlerPanics

Exits   == [kind : {"return", "panic", "goexit"}, value : Raised \cup {Nil}]
Returns == [kind  : {"return", "panic", "goexit"}, value : Raised \cup {Nil},
            result : ResultValues, error : ErrorValues \cup {Nil}]

Returned == [kind |-> "return", value |-> Nil]
Panic(v) == [kind |-> "panic", value |-> v]
Goexit   == [kind |-> "goexit", value |-> Nil]

\* A call that ends with exit e, returning r and err if it returns.
Answer(e, r, err) == [kind |-> e.kind, value |-> e.value, result |-> r, error |-> err]

-----------------------------------------------------------------------------
(* The WrapN functions.  result and error: the values the target returns,  *)
(* which the closure keeps and copies to the context.  override: when the  *)
(* wrapper takes the result from the context instead.  checked: whether    *)
(* the type assertion on it is checked.  contextError: whether a non-nil   *)
(* ctx.Error is returned.  The number of arguments makes no difference.    *)

Closure(result, error) ==
    [result |-> result, error |-> error,
     override |-> "never", checked |-> TRUE, contextError |-> FALSE]

Wrap0   == Closure(FALSE, FALSE)
Wrap0R  == [Closure(TRUE, FALSE) EXCEPT !.override = "always", !.checked = FALSE]
Wrap0RE == [Closure(TRUE, TRUE) EXCEPT !.override = "always", !.checked = FALSE,
                                       !.contextError = TRUE]
Wrap1   == Closure(FALSE, FALSE)
\* Faulty: the type assertion of Wrap1R is not checked.
Wrap1RUnchecked == [Closure(TRUE, FALSE) EXCEPT !.override = "skipped", !.checked = FALSE]
Wrap1R  == [Closure(TRUE, FALSE) EXCEPT !.override = "skipped"]
Wrap1RE == Closure(TRUE, TRUE)
Wrap1E  == Closure(FALSE, TRUE)
Wrap2   == Closure(FALSE, FALSE)
Wrap2R  == Closure(TRUE, FALSE)
Wrap2RE == Closure(TRUE, TRUE)
Wrap2E  == Closure(FALSE, TRUE)
Wrap3RE == Closure(TRUE, TRUE)

Wrappers ==
    [Wrap0 |-> Wrap0, Wrap0R |-> Wrap0R, Wrap0RE |-> Wrap0RE,
     Wrap1 |-> Wrap1, Wrap1R |-> Wrap1R, Wrap1RE |-> Wrap1RE, Wrap1E |-> Wrap1E,
     Wrap2 |-> Wrap2, Wrap2R |-> Wrap2R, Wrap2RE |-> Wrap2RE, Wrap2E |-> Wrap2E,
     Wrap3RE |-> Wrap3RE]

\* The WrapN function of a call.
Wrapper(p) == Wrappers[wrapper[p]]

ASSUME WeaveAssumption ==
    /\ WrapperNames \subseteq DOMAIN Wrappers
    /\ InitialRegistries \subseteq RegistryRecord
    /\ Advices \subseteq Advice
    /\ MaxChains \in Nat \ {0}
    /\ HandlerOutcomes \subseteq {"ok", "error", "panic", "goexit"}
    /\ HandlerSkips \subseteq BOOLEAN
    /\ Nil \notin TargetValues \cup TargetErrors \cup ForeignValues \cup Raised
    /\ ForeignValues \cap (TargetValues \cup {Zero}) = {}

-----------------------------------------------------------------------------
(* Initial state: the start-up code has registered its functions and has   *)
(* attached their advice.                                                  *)

Init ==
    /\ reg \in InitialRegistries
    /\ pc = [p \in Calls |-> "idle"]
    /\ wrapper \in [Calls -> WrapperNames]
    /\ chain = [p \in Calls |-> NoChain]
    /\ ctx = [p \in Calls |-> NewContext]
    /\ todo = [p \in Calls |-> <<>>]
    /\ exit = [p \in Calls |-> Returned]
    /\ local = [p \in Calls |-> [result |-> Zero, error |-> Nil]]
    /\ ret = [p \in Calls |-> Answer(Returned, Zero, Nil)]
    /\ ran = [p \in Calls |-> <<>>]
    /\ inert = [p \in Calls |-> TRUE]
    /\ bare = [p \in Calls |-> Answer(Returned, Zero, Nil)]
    /\ atLookup = [p \in Calls |-> NewAdviceChain]

-----------------------------------------------------------------------------
(* Steps of executeWithAdvice.                                             *)

Goto(p, place) == pc' = [pc EXCEPT ![p] = place]

\* executeAdviceList: take a sorted copy of one list of the chain.  The chain is
\* read now, without the registry's lock: it may have grown since the lookup.
Load(p, type) ==
    /\ Goto(p, type)
    /\ \E list \in SortedCopies(reg.chains[chain[p]][type]) :
          todo' = [todo EXCEPT ![p] = list]

\* The call looks its name up.
Invoke(p, name) ==
    LET found == GetAdviceChain(reg, name, Lookup(reg, name)).reply
    IN  /\ pc[p] = "idle"
        /\ IF found.error = "none"
           THEN /\ Goto(p, "found")
                /\ chain' = [chain EXCEPT ![p] = found.chain]
                /\ atLookup' = [atLookup EXCEPT ![p] = reg.chains[found.chain]]
           ELSE /\ Goto(p, "bare")
                /\ UNCHANGED <<chain, atLookup>>
        /\ UNCHANGED <<reg, wrapper, ret, frame, history>>

StartBefore(p) ==
    /\ pc[p] = "found"
    /\ Load(p, "Before")
    /\ UNCHANGED <<reg, ctx, exit, local, ret, fixed, history>>

\* Some name still leads to the chain of p.
StillRegistered(p) == \E n \in Names : Lookup(reg, n) = chain[p]

\* Faulty: the chain is looked up again.
FinishBeforeFreshLookup(p) ==
    /\ pc[p] = "Before" /\ todo[p] = <<>>
    /\ IF StillRegistered(p) /\ HasAround(reg.chains[chain[p]])
       THEN Load(p, "Around")
       ELSE Goto(p, "target") /\ UNCHANGED todo
    /\ UNCHANGED <<reg, ctx, exit, local, ret, fixed, history>>

\* Faulty: Skipped counts without Around advice as well.
FinishBeforeSkipping(p) ==
    /\ pc[p] = "Before" /\ todo[p] = <<>>
    /\ IF HasAround(reg.chains[chain[p]])
       THEN Load(p, "Around")
       ELSE Goto(p, IF ctx[p].skipped THEN "completed" ELSE "target") /\ UNCHANGED todo
    /\ UNCHANGED <<reg, ctx, exit, local, ret, fixed, history>>

\* All Before advice has run: HasAround reads the chain once more.
FinishBefore(p) ==
    /\ pc[p] = "Before" /\ todo[p] = <<>>
    /\ IF HasAround(reg.chains[chain[p]])
       THEN Load(p, "Around")
       ELSE Goto(p, "target") /\ UNCHANGED todo
    /\ UNCHANGED <<reg, ctx, exit, local, ret, fixed, history>>

FinishAround(p) ==
    /\ pc[p] = "Around" /\ todo[p] = <<>>
    /\ Goto(p, IF ctx[p].skipped THEN "completed" ELSE "target")
    /\ UNCHANGED <<reg, ret, frame, fixed, history>>

\* Faulty: the error is not looked at.
CompleteAnyway(p) ==
    /\ pc[p] = "completed"
    /\ IF ~HasPanic(ctx[p])
       THEN Load(p, "AfterReturning")
       ELSE Goto(p, "recover") /\ UNCHANGED todo
    /\ UNCHANGED <<reg, ctx, exit, local, ret, fixed, history>>

\* AfterReturning advice runs only if no error and no panic is on record.
Complete(p) ==
    /\ pc[p] = "completed"
    /\ IF ctx[p].error = Nil /\ ~HasPanic(ctx[p])
       THEN Load(p, "AfterReturning")
       ELSE Goto(p, "recover") /\ UNCHANGED todo
    /\ UNCHANGED <<reg, ctx, exit, local, ret, fixed, history>>

\* Faulty: every abnormal exit is taken for a panic.
RecoverGoexit(p) ==
    /\ pc[p] = "recover"
    /\ IF exit[p].kind # "return"
       THEN /\ ctx' = [ctx EXCEPT ![p].panicValue = "target"]
            /\ Load(p, "AfterThrowing")
       ELSE Goto(p, "cleanup") /\ UNCHANGED <<ctx, todo>>
    /\ UNCHANGED <<reg, exit, local, ret, fixed, history>>

\* recover() is nil when the body returns and also when it is left by Goexit.
Recover(p) ==
    /\ pc[p] = "recover"
    /\ IF exit[p].kind = "panic"
       THEN /\ ctx' = [ctx EXCEPT ![p].panicValue = exit[p].value]
            /\ Load(p, "AfterThrowing")
       ELSE Goto(p, "cleanup") /\ UNCHANGED <<ctx, todo>>
    /\ UNCHANGED <<reg, exit, local, ret, fixed, history>>

\* Faulty: the cleanup is dropped when the function was unregistered meanwhile.
StartAfterFreshLookup(p) ==
    /\ pc[p] = "cleanup"
    /\ IF StillRegistered(p)
       THEN Load(p, "After")
       ELSE Goto(p, "epilogue") /\ UNCHANGED todo
    /\ UNCHANGED <<reg, ctx, exit, local, ret, fixed, history>>

StartAfter(p) ==
    /\ pc[p] = "cleanup"
    /\ Load(p, "After")
    /\ UNCHANGED <<reg, ctx, exit, local, ret, fixed, history>>

\* Faulty: the re-panic skips the After advice.
UnwindPastCleanup(place) ==
    CASE place \in {"AfterThrowing", "After", "bare"} -> "epilogue"
      [] OTHER -> "recover"

\* Where a list of handlers leads when it ends, by itself or by a failure.
Unwind(place) ==
    CASE place = "AfterThrowing" -> "cleanup"
      [] place = "After"         -> "epilogue"
      [] place = "bare"          -> "epilogue"
      [] OTHER                   -> "recover"

\* Leave the phase that p is in, with exit e.
Leave(p, e) ==
    /\ Goto(p, Unwind(pc[p]))
    /\ exit' = [exit EXCEPT ![p] = e]
    /\ todo' = [todo EXCEPT ![p] = <<>>]

\* Faulty: the recovered panic is not raised again.
FinishListSwallowing(p) ==
    /\ pc[p] \in {"AfterReturning", "AfterThrowing", "After"} /\ todo[p] = <<>>
    /\ Leave(p, IF pc[p] = "AfterThrowing" THEN Returned ELSE exit[p])
    /\ UNCHANGED <<reg, ctx, local, ret, fixed, history>>

\* A list that ran to its end changes nothing about how the call is left; after
\* AfterThrowing that means the recovered value is panicked with again.
FinishList(p) ==
    /\ pc[p] \in {"AfterReturning", "AfterThrowing", "After"} /\ todo[p] = <<>>
    /\ Leave(p, exit[p])
    /\ UNCHANGED <<reg, ctx, local, ret, fixed, history>>

-----------------------------------------------------------------------------
(* Handlers.                                                               *)

\* The contexts that a handler called with context c may leave behind.
Touched(c) ==
    [results    : {c.results} \cup {SetResult(c, 0, v).results : v \in HandlerValues},
     error      : {c.error} \cup HandlerErrors,
     panicValue : {c.panicValue} \cup HandlerPanics,
     skipped    : {c.skipped} \cup HandlerSkips]

Record(p, type, priority, id, outcome) ==
    ran' = [ran EXCEPT ![p] =
        Append(@, [type |-> type, priority |-> priority, id |-> id, outcome |-> outcome])]

\* The next handler of p's list is called and ends with outcome.
Call(p, outcome) ==
    /\ pc[p] \in AdviceTypes /\ todo[p] # <<>>
    /\ outcome \in HandlerOutcomes
    /\ Record(p, pc[p], Head(todo[p]).priority, Head(todo[p]).id, outcome)
    /\ \E c \in Touched(ctx[p]) :
          /\ ctx' = [ctx EXCEPT ![p] = c]
          /\ inert' = [inert EXCEPT ![p] = @ /\ outcome = "ok" /\ c = ctx[p]]
    /\ UNCHANGED <<reg, local, ret, bare, fixed>>

HandlerReturns(p) ==
    /\ Call(p, "ok")
    /\ todo' = [todo EXCEPT ![p] = Tail(@)]
    /\ UNCHANGED <<pc, exit>>

\* Faulty: the error ends the list and nothing else.
HandlerFailsUnnoticed(p) ==
    /\ Call(p, "error")
    /\ todo' = [todo EXCEPT ![p] = <<>>]
    /\ UNCHANGED <<pc, exit>>

\* Faulty: the loop goes on after an error.
HandlerFailsContinuing(p) ==
    /\ Call(p, "error")
    /\ todo' = [todo EXCEPT ![p] = Tail(@)]
    /\ UNCHANGED <<pc, exit>>

\* An error ends the list.  The body panics for an error of Before or Around
\* advice; an error of any other advice is dropped.
HandlerFails(p) ==
    /\ Call(p, "error")
    /\ Leave(p, CASE pc[p] = "Before" -> Panic("before advice failed")
                  [] pc[p] = "Around" -> Panic("around advice failed")
                  [] OTHER            -> exit[p])

\* A panic in a deferred function takes the place of the one being raised.
HandlerRaises(p) ==
    /\ Call(p, "panic")
    /\ Leave(p, Panic(pc[p]))

\* runtime.Goexit runs the remaining defers, and aborts a panic being raised.
HandlerExits(p) ==
    /\ Call(p, "goexit")
    /\ Leave(p, Goexit)

-----------------------------------------------------------------------------
(* The target function, called in the closure of the WrapN function.       *)

RunTarget(p, kind, answer) ==
    /\ pc[p] \in {"target", "bare"}
    /\ kind \in TargetKinds
    /\ Record(p, "target", 0, "target", IF kind = "return" THEN "ok" ELSE kind)
    /\ bare' = [bare EXCEPT ![p] = answer]
    /\ UNCHANGED <<reg, todo, ret, inert, fixed>>

\* The context c once the closure has copied to it what the target returned.
Stored(p, c, r, err) ==
    LET d == IF Wrapper(p).result THEN SetResult(c, 0, r) ELSE c
    IN  IF Wrapper(p).error THEN [d EXCEPT !.error = err] ELSE d

\* Faulty: := in the closure declares result and err anew.
TargetReturnsShadowed(p) ==
    \E r \in IF Wrapper(p).result THEN TargetValues ELSE {Zero},
       err \in IF Wrapper(p).error THEN TargetErrors \cup {Nil} ELSE {Nil} :
        /\ RunTarget(p, "return", Answer(Returned, r, err))
        /\ ctx' = [ctx EXCEPT ![p] = Stored(p, @, r, err)]
        /\ Goto(p, IF pc[p] = "bare" THEN "epilogue" ELSE "completed")
        /\ UNCHANGED <<exit, local>>

\* The closure keeps what the target returned and copies it to the context.
TargetReturns(p) ==
    \E r \in IF Wrapper(p).result THEN TargetValues ELSE {Zero},
       err \in IF Wrapper(p).error THEN TargetErrors \cup {Nil} ELSE {Nil} :
        /\ RunTarget(p, "return", Answer(Returned, r, err))
        /\ local' = [local EXCEPT ![p] = [result |-> r, error |-> err]]
        /\ ctx' = [ctx EXCEPT ![p] = Stored(p, @, r, err)]
        /\ Goto(p, IF pc[p] = "bare" THEN "epilogue" ELSE "completed")
        /\ UNCHANGED exit

TargetThrows(p, kind, e) ==
    /\ RunTarget(p, kind, Answer(e, Zero, Nil))
    /\ exit' = [exit EXCEPT ![p] = e]
    /\ Goto(p, Unwind(pc[p]))
    /\ UNCHANGED <<ctx, local>>

TargetPanics(p) == TargetThrows(p, "panic", Panic("target"))
TargetExits(p)  == TargetThrows(p, "goexit", Goexit)

-----------------------------------------------------------------------------
(* Back in the closure of the WrapN function.                              *)

\* Faulty: the result of the context is taken without looking at Skipped.
OverrideAlways(p) ==
    IF Wrapper(p).override # "never" THEN GetResult(ctx[p], 0) ELSE Nil

\* The result the wrapper takes from the context, Nil when it takes none.
Override(p) ==
    CASE Wrapper(p).override = "always" -> GetResult(ctx[p], 0)
      [] Wrapper(p).override = "skipped" /\ ctx[p].skipped -> GetResult(ctx[p], 0)
      [] OTHER -> Nil

\* Faulty: the result of the context is ignored.
CallerResultLocal(p) == local[p].result

CallerResult(p) ==
    IF Override(p) \in ForeignValues \cup {Nil} THEN local[p].result ELSE Override(p)

\* Faulty: only the error of the context counts.
CallerErrorContext(p) ==
    IF Wrapper(p).contextError THEN ctx[p].error ELSE Nil

CallerError(p) ==
    IF Wrapper(p).contextError /\ ctx[p].error # Nil THEN ctx[p].error ELSE local[p].error

\* An unchecked type assertion on a result of another type panics.
Epilogue(p) ==
    /\ pc[p] = "epilogue"
    /\ Goto(p, "done")
    /\ ret' = [ret EXCEPT ![p] =
          CASE exit[p].kind # "return" ->
                 Answer(exit[p], Zero, Nil)
            [] exit[p].kind = "return" /\ Override(p) \in ForeignValues /\ ~Wrapper(p).checked ->
                 Answer(Panic("type assertion"), Zero, Nil)
            [] OTHER ->
                 Answer(exit[p], CallerResult(p), CallerError(p))]
    /\ UNCHANGED <<reg, frame, fixed, history>>

-----------------------------------------------------------------------------
(* Other goroutines, handlers and targets use the registry.                *)

\* Bound: every member of Advices is attached at most once.
Unattached(a) ==
    \A i \in DOMAIN reg.chains : \A t \in AdviceTypes : a \notin Range(reg.chains[i][t])

RegisterName(name) ==
    /\ Len(reg.chains) < MaxChains
    /\ reg' = Register(reg, name, Lookup(reg, name)).reg

AttachAdvice(name, a) ==
    /\ Unattached(a)
    /\ reg' = AddAdvice(reg, name, a, Lookup(reg, name)).reg

\* Through a pointer that RegisterOrGet or GetAdviceChain returned earlier.
AttachThroughPointer(i, a) ==
    /\ Unattached(a)
    /\ reg' = AddTo(reg, i, a)

UnregisterName(name) == reg' = Unregister(reg, name).reg
ClearRegistry == reg' = Clear(reg).reg

\* The global pointer is replaced, without a lock, by that of another registry:
\* a new one, one that was saved, or one that was filled before.  The chains of
\* the registry it replaces stay where they are.
SetGlobalRegistry(entries) ==
    /\ reg' = [reg EXCEPT !.entries = entries]
    /\ Unshared(reg')

Environment ==
    /\ \/ \E name \in Names :
             \/ RegisterName(name)
             \/ UnregisterName(name)
             \/ \E a \in Advices : AttachAdvice(name, a)
       \/ \E i \in DOMAIN reg.chains, a \in Advices : AttachThroughPointer(i, a)
       \/ ClearRegistry
       \/ \E entries \in [Names -> 0..Len(reg.chains)] : SetGlobalRegistry(entries)
    /\ UNCHANGED <<pc, ret, frame, fixed, history>>

-----------------------------------------------------------------------------

\* What a call does by itself once it has started.
Step(p) ==
    \/ StartBefore(p) \/ FinishBefore(p) \/ FinishAround(p)
    \/ Complete(p) \/ Recover(p) \/ StartAfter(p) \/ FinishList(p)
    \/ HandlerReturns(p) \/ HandlerFails(p) \/ HandlerRaises(p) \/ HandlerExits(p)
    \/ TargetReturns(p) \/ TargetPanics(p) \/ TargetExits(p)
    \/ Epilogue(p)

Next ==
    \/ \E p \in Calls : Step(p) \/ \E name \in Names : Invoke(p, name)
    \/ Environment

Spec == Init /\ [][Next]_vars
=============================================================================
