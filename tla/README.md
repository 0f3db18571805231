# gosaidsno in TLA+

gosaidsno is a Go library for aspect-oriented programming: a program registers
function names, attaches advice (handlers) to them, and wraps its functions with
`WrapN`, so that every call runs the advice around the function.  This directory
models the library (`src/aspect`) and its five example programs in TLA+, checks the
models with TLC on small instances, and proves the safety results of the library and
of the programs with TLAPS for every instance.

    tlasany M.tla                       parse a module
    tlc -config X.cfg M                 check a run (see "Runs")
    tlapm M.tla                         check the proofs of M

`PROJECT.json` maps every definition to the lines it translates and lists runs,
hazards, theorems and, for each property, a mutation of the model it catches.
The operators marked `Faulty:` in the modules are those mutations; no
specification uses them.


## 1. The system

| component | source | state | operations |
|---|---|---|---|
| advice chains | `aspect/advice.go` | five lists of advice (type, priority, handler) | `Add`, `HasAround`, `Count`, `executeAdviceList` and the six `Execute…` methods |
| execution context | `aspect/context.go` | results, error, panic value, `Skipped`, metadata of one call | `SetResult`, `GetResult`, `HasPanic`, metadata accessors |
| registry | `aspect/registry.go` | map from names to chains, under a `sync.RWMutex` | twelve methods, from `Register` to `GetAdviceCount` |
| global registry | `aspect/registry.go` | one package variable | forwarding functions, `SetGlobalRegistry` |
| weaving | `aspect/wrap.go` | the local variables and the context of each call | `executeWithAdvice` and twelve `WrapN` functions |
| circuit breaker | `examples/04_circuit_breaker` | state, counters, time of opening, under a mutex | an Around and an After handler, a reset |
| cache | `examples/02_caching_pattern` | two caches, one with statistics and one with expiry | Around and AfterReturning handlers |
| retry | `examples/05_retry_pattern` | attempt counter, last error | `WithRetry` around wrapped calls, handlers that time and log |
| authentication | `examples/03_authentication` | sessions, which expire; metadata of a call; audit records | three handlers that authenticate, authorize and audit |
| basic usage | `examples/01_basic_usage` | metadata of a call | set-up, validation, a handler that makes a wrapped call |
| the rest | logging, tests, build files | - | - |

How they interact: a wrapped function asks the global registry for the chain of
its name once per call, by pointer, and then works on that chain and on a fresh
context without any lock.  Handlers and the function itself are callbacks: they
may return an error, panic, call `runtime.Goexit`, store anything in the
context, or call the registry again.  Other goroutines may attach advice,
unregister the name, clear the registry or replace it while the call runs.  The
examples are handlers that share state: with other calls (circuit breaker, cache) or
with the other handlers of the same call (authentication, retry).

What is hard, and what makes each part correct:

* **Registry.**  Check-then-act methods on a shared map, a panic inside a
  critical section, pointers that outlive their entry, waiting for the lock.
  Correct if every method is atomic, two names never share a chain, a chain once taken
  out never comes back, and every call comes back.
* **Weaving.**  Two defers, a `recover`, a re-panic and twelve closures, with
  callbacks that end in four ways at each point.  Correct if guards come before
  the target and cleanup after it on every path, no failure is lost or made up,
  each kind of advice runs exactly when it should, the caller gets the right
  values, and all that while the chain and the registry change underneath.  The
  callbacks may call wrapped functions and registry methods in turn, over a lock that
  is not reentrant: every call must end nevertheless.
* **Lists in memory.**  `AddAdvice` appends under the registry's lock, and a call
  copies the list without it.  Correct if no append loses advice and a copy has all
  that was attached before.
* **Circuit breaker.**  A call is admitted in one critical section and recorded
  in another, with other calls between them.  Correct if late results cannot
  corrupt counters or states, nor keep the circuit open for ever.
* **Cache.**  Look up and populate are two critical sections; the counters are
  incremented under a read lock.
* **Authentication, basic usage.**  Handlers that read, unchecked, what others have
  left in the metadata, on the path of success and on those of failure; a wrapped call
  inside a handler.  Correct if nobody unauthorized gets through, no handler panics
  over what is missing, and records match what happened.
* **Retry.**  A loop around a call whose errors are retried and whose panics are not.
  Correct if the number of attempts is right and no success is repeated.

`PROJECT.json` lists every hazard at its line with the properties that cover it.


## 2. The modules

    Advice ──── RegistryMap ──┬── RegistryAtomic                (abstract)
                              ├── Registry ── MCRegistry        implements it
    Context ──────────────────┴── Weave ── WeaveProperties ─┬── MCWeave
                                           implements       │
                                           WrappedCall      │
    ExampleSetup (on RegistryMap), Retry ───────────────────┴── Examples ── MCExamples

    NestedCalls          ChainRace          CircuitBreaker          CacheAside

    proofs: RegistryMapProofs ─┬── RegistryProofs
                               └── WeaveProofs ── OutcomeProofs ── ExampleProofs
            ChainProofs, CircuitProofs, CacheProofs

**Advice** and **Context** are the data types.  A handler is opaque, so an
identifier stands for it.  `SortedCopies` is the set of orders `sort.Slice` may
produce: it is not stable, so advice of equal priority comes in any order.
`SetResult` grows the slice with nils as the code does.

**RegistryMap** holds the critical section of each method as an operator from
the registry (the map and all chains ever allocated; a pointer is an index) to
the registry it leaves and the reply.  A chain that is unregistered stays: some
goroutine may hold its pointer.

**Registry** lets goroutines (`Clients`) call the methods.  A call takes the lock
(`Announce` and `Lock` for writers, `RLock` for readers), looks its name up
(`LookUp`), acts on what it found (`Act`) and leaves through the deferred unlock
(`Unlock`), also when it panics.  Look-up and act are separate steps, so the
atomicity of a method is due to the lock and nothing else.  The lock is an
external component, modelled after `sync.RWMutex`: an announced writer keeps new
readers out, and its unlock lets the readers in that have waited meanwhile.

**RegistryAtomic** is what the registry promises: each method takes effect in one
step between call and return.  `Registry!ImplementsAtomic` states the refinement;
`Status` is the mapping.

**Weave** has one program counter for each call, with the places listed at the
head of the module; it follows `executeWithAdvice` line by line.  The list
being run is `todo`; it is loaded from the chain as it is at that moment, which
may have grown since the lookup.  `exit` says how the code run so far is being
left: by return, panic or Goexit; a deferred function that fails replaces it, as
in Go.  The twelve wrappers differ in four respects, which `Wrappers` tabulates:
whether the function returns a result and an error, whether the closure takes the
result from the context (`Wrap0R`, `Wrap0RE`: always, with an unchecked type
assertion; `Wrap1R`: if skipped, with a checked one), and whether a context error
is returned (`Wrap0RE`).  `Environment` is everybody else who uses the registry,
including handlers and targets that call it; its operations are atomic here, which
`Atomicity` (below) justifies.  `SetGlobalRegistry` gives the names any chains that
exist, or none; the chains of the registry it replaces stay, as some call may hold
them.  A call reads a list in one step.  ChainRace justifies this as far as it goes: a
copy made slot by slot has all advice attached before, each once, in whatever order.
It does not justify that every slot has a handler: a copy that overlaps an append to
the same list can meet an empty one, whose call panics.  Weave has no such panic
(section 7).

**WeaveProperties** states what calls promise over the history `ran` of a call:
handlers and target in order, each with its outcome.  It also has the refinement
mapping (`Status`, `Effect`, `Meddled`, `Given`) under which Weave implements

**WrappedCall**, what the WrapN functions promise: the target takes effect at most
once and before its caller goes on, and the caller gets its answer unless advice
meddled, that is, failed or changed the context (`ImplementsWrappedCall`).

**NestedCalls** is about what can block.  Handlers and targets call wrapped functions
and registry methods (`Enter`), at the top (`depth` 0) or inside a call; a wrapped call
takes the read lock for its lookup, as `GetAdviceChain` does, and goes on with handlers
and target when it has left it (`Unlock`); `Return` ends the innermost one.  The lock is
that of Registry.  The faulty `HoldsReadThroughout`, the lock held for as long as the
call, is what an attempt to repair the race on the lists might look like: a writer that
comes in between then makes a nested call wait for itself.

**ChainRace** looks at one list in memory.  An append stores pointer (if the array is
full), length and element one after the other, under the lock; the copy in
`executeAdviceList` loads pointer and length in either order, then slot by slot,
without it.  `ReaderComplete` says that advice attached before is copied, and
`TornOnlyDuringAppend` that a slot without a handler is met only while an append to
that list is under way: the first is what Weave takes for granted, the second bounds
what it leaves out.

**CircuitBreaker** models example 4: `CheckCircuit` is the critical section of
the Around handler, `Reject` the rest of it, `ServiceReturns`/`ServicePanics` the
call, `Record` the After handler.  The time since the opening is the boolean
`elapsed`.  The failure count is cut off at `MaxFailures`: beyond it the code only
compares it and sets it to 0.  `streak` and `forgiven` are history: they record what
the circuit has seen, for the properties.

**CacheAside** models both caches of example 2: `Profiles` are the keys of the one
with statistics, `Recommendations` those of the one with expiry.  The increment under
the read lock is the two steps `LoadCounter`, `StoreCounter`.

**ExampleSetup** builds the registries of examples 1, 3 and 5 by the calls their
set-up functions make, and lists their requests.  `Prepared` says what the handlers
rely on in what was attached, and in which order of priorities.  **Retry** is the loop of
`WithRetry`.  **Examples** puts these and Weave together: each step of a call is a step
of Weave, restricted to what the handler at hand does (`Outcome`), with what it does to
the metadata and to the audit records.  Sessions expire at any moment.  Call 1 is the
first one; under `WithRetry` the following ones are the retries, otherwise call 2 is the
one that the handler `confirm` makes while it runs.


## 3. Runs

Every property is about the code behaviour its comment in the module names.

| run | module, cfg | what it checks |
|---|---|---|
| `registry` | MCRegistry, MCRegistry.cfg | TypeOK, NoDataRace, NoSharedChain, NobodyStranded, NoChainReused, ImplementsAtomic, EveryCallReturns: two goroutines, all twelve methods |
| `flow` | MCWeave, MCWeaveFlow.cfg | TypeOK, ExecutionOrder, TargetGuarded, ThrowingMatchesPanic, TargetLeftOut, ReturningOnlyOnSuccess, CleanupAttempted, LastFailureWins: all outcomes of all handlers and of the target, while the registry and the chain change |
| `effects` | MCWeave, MCWeaveEffects.cfg | AnswerKept, SkipResultUsed, Transparency, LastFailureWins, ImplementsWrappedCall: all twelve wrappers, handlers that write to the context |
| `nested` | NestedCalls, MCNested.cfg | EveryCallEnds: two goroutines in calls inside calls, and the registry's lock |
| `chain_race` | ChainRace, MCChain.cfg | NothingLost, ReaderComplete, TornOnlyDuringAppend: three appends and two copies of one list |
| `examples` | MCExamples, MCExamples.cfg | UnauthorizedKeptOut, NoHandlerTrips, AuditComplete, OrdersConfirmed, RetriesAccounted, RequestAnswered: every request to three of the programs |
| `circuit` | CircuitBreaker, MCCircuit.cfg | TypeOK, WithinLimits, OpensAfterStreak, StatesInOrder, FailedProbeReopens, ProbedAgain: three concurrent callers |
| `cache` | CacheAside, MCCache.cfg | FetchedOnce: two concurrent callers of both functions, with entries that expire |

These end in the violation that section 6 describes: `after_always`, `throwing`,
`audit`, `cache_stats`.

### Bounds, and why they are enough

* `registry`: methods meet in pairs, so two clients reach every interleaving of
  two methods, and each can keep the other waiting by calling again and again;
  `MaxGrowth = 2` calls each that may allocate or append give up to four chains,
  which is enough for a name to be registered, unregistered and registered again
  while the other client holds the old pointer.  There is one ordinary name for every
  method, the empty name for those that treat it apart, and a second name for the
  sharing of chains.
* `flow`: chains with one handler of each type, with none, and three chains with
  two handlers of some types, of equal and of different priority; two more pieces of
  advice and one of an undeclared type, each attached at most once, at any moment, by
  name or through a pointer; a second chain, for names registered anew.  A late piece
  makes a list of up to three, the longest that can have a first, a failing and a
  skipped handler.  Calls share nothing but the registry, so one call is enough, and
  what other calls do to it is part of `Environment`.  The phases of a call do not
  depend on the wrapper: one that returns an error stands for all.
* `effects`: one value of the target's type besides its zero value and one of another
  type, one error and nil, one panic value; any two values of a kind are treated alike.
* `nested`: a call inside a call inside a call, so that a nested one has both an outer
  and an inner neighbour; two goroutines, since a circle of waiting needs a reader that
  is let in already and a writer between it and its next lookup.  Three goroutines at
  depth 2 hold as well (21565 states, some five minutes).
* `chain_race`: capacities go 0, 1, 2, 4, so three appends move the array three times;
  two readers, that do not affect each other.
* `examples`: limits of no retry and of two; two errors that a payment can fail with, so
  that the error of the last attempt is told from that of another; a list of functions, arguments and tokens
  that tells apart all that the handlers do.
* `circuit`: limits of two, so that one below, at and past the limit occur; a third
  caller so that late results of two calls meet a probe.
* `cache`: one user of each function and four calls for each: both callers can miss,
  then hit, then come after an expiry.

All invariants and action properties above are also proved, for every value of the
constants (section 4).

Deadlock is checked in all runs but those of CacheAside, ChainRace and Examples, which
stop when all calls are made.

### Fairness

* `Registry`: a goroutine inside a method goes on (weak fairness: the Go scheduler
  runs every runnable goroutine); a writer that keeps finding the inner mutex free
  gets it in the end (strong fairness on `Announce`: `sync.Mutex` hands over to a
  waiter after 1 ms, its starvation mode).  Nothing makes a client begin a call.
* `NestedCalls`: the lock as in `Registry`; handlers and targets end (strong fairness of
  `Return` at each depth: those of a call at that depth that are in control again and
  again, because what they call comes back, end it).  Nothing makes anyone `Enter`.
* `Weave`: none; that a call ends is an action property there (`CallsTerminate`).
* `Examples`: weak fairness of the steps of each call and of the goroutine that waits
  for them; business functions end.  There is none on `Request`, `AttachConfirm` and
  `Expire`.
* `CircuitBreaker`: time passes, and calls that have begun go on.  `ProbedAgain`
  assumes in its own statement that calls keep coming; there is no fairness on
  `Invoke`.


## 4. What is proved

All constants are arbitrary but for the named assumptions of the modules:
`NamesAssumption`, `RegistryAssumption`, `WeaveAssumption`, `IdsAssumption`,
`CircuitAssumption`, `CacheAssumption`, `ChainAssumption` (types of the constants; `Nil`
is not a value; the empty name is a name; an identifier stands for one piece of advice
of a list); for the examples also `ExamplesAssumption` (there are calls enough for the
retries, and the requested functions have names), `RetryAssumption` (no negative limit) and
`SetupAssumption`, below.  TLC evaluates all of them.

**RegistryProofs.**  `TypeCorrect`, `MutualExclusion` (NoDataRace), `ChainsKeptApart`
(NoSharedChain), `ChainsNeverComeBack` (NoChainReused), `Atomicity` (ImplementsAtomic) and `NoDeadlock` (NobodyStranded), for
any number of goroutines.
The inductive invariant adds to TypeOK that the lock's bookkeeping in the program
counters excludes (announced writers are alone, no reader is inside beside a
writer that is), and that a client between look-up and act still has what the map
holds.  The last part needs mutual exclusion and is what makes `Act` simulate
`Perform` on the current map; every other step is a call, a return or a stutter.
`NoDeadlock` is the safety half of EveryCallReturns: readers wait only while a writer is
announced or inside (`WaitInv`), since the deferred Unlock lets them in on every path.
`RegistryMapProofs` has the lemmas about the operators: types, what each method
does to the map, and that chains only ever grow.

**WeaveProofs.**  `WeaveTypeCorrect`, `GuardsHold` (TargetGuarded), `CleanupHappens`
(CleanupAttempted), `FailuresReachTheCaller` (LastFailureWins), for any number of
concurrent calls, any chains and any registry activity.  None of these is
inductive.  `CallInv` says, for each call:

| part | what it says, and why it is needed |
|---|---|
| `ChainInv` | its chain exists and still has what it had at the lookup; without it a list loaded later could lack advice |
| `FreshInv` | a phase that has not begun has run nothing |
| `ListInv` | while a list is run, what was attached is in `todo` or has run |
| `GuardInv` | past the Before and Around phases all guards have run and succeeded |
| `CleanupInv` | past the After phase the cleanup has run or failed |
| `ExitInv` | `exit` is that of the last fatal outcome so far, or return if there is none |

and `AnswerInv` carries `exit` over to what the caller gets.  `WeaveInvariance`
shows each action preserves all of it, one step per action.  Other goroutines
disturb only `ChainInv`, where `EnvironmentGrows` says that chains never shrink.

`CallsTerminate` is an action property, and the safety half of the termination of a call
whose handlers and target end: every step of a call moves it to a later `Stage` or leaves
it a handler less to run, and no other goroutine takes it back.  It needs that `Load`
copies the list.

**OutcomeProofs.**  `ThrowingGoesWithPanic` (ThrowingMatchesPanic), `NothingElseLeavesOut`
(TargetLeftOut), `ReturningNeedsSuccess` (ReturningOnlyOnSuccess), `WeavingIsTransparent` (Transparency),
`AnswersAreKept` (AnswerKept), `SkipResultsAreUsed` (SkipResultUsed) and
`WeaveImplementsWrappedCall`.  `OutcomeInv` is added to the invariant of WeaveProofs:

| part | what it says, and why it is needed |
|---|---|
| `BareInv` | the variables that the closure captured are the target's answer: what the caller gets is computed from them |
| `PanicInv` | `recover` finds a panic exactly if the body panicked |
| `SuccessInv` | the error in the context, which decides on AfterReturning advice, is at least what the target returned |
| `InertInv` | with inert advice the context holds what the target returned and nothing else |
| `ReturnInv` | what the caller was given |

For TargetLeftOut, `LeftOutInv` carries the reason why the target was left out from the
place where it is to the end of the call.

The refinement follows: a handler step that meddles maps to `Meddle`, a target step to
`TakeEffect`, the epilogue to `Return`, and all others to stuttering.

`OrderIsKept` (ExecutionOrder): a phase runs a copy of a list, sorted and without
repetition (`ChainsApart`, kept because `Advices` are attached at most once), so what is
left of it comes after what has run (`OrderInv`); the ranks of the types bound what a call
in a given place can have run (`Reached`).

**ExampleProofs.**  `TheUnauthorizedAreKeptOut` (UnauthorizedKeptOut), `HandlersDoNotTrip`
(NoHandlerTrips), `AuditIsComplete` (AuditComplete), `OrdersAreConfirmed`
(OrdersConfirmed) and `RetriesAreAccounted` (RetriesAccounted), for any number of
retries, whenever sessions expire and the last handler is attached.  `ProgramWeaves`
shows that a program's steps are steps of Weave (theorem `ExamplesAreWoven`: every
behaviour of a program is one of Weave), so the invariants above hold in it, and they
carry the argument: who runs the target has all guards behind him, a cleanup has run or
failed, AfterReturning advice needs success, inert advice changes nothing, and a list is
run in order.  `EInv` adds, for each call:

| part | what it says, and why it is needed |
|---|---|
| `KeptInv` | its chain is what it was at the lookup, and prepared; `todo` comes from it |
| `ExpectedInv` | how each handler that ran has ended, and what that tells of the request: nobody trips |
| `ContextInv` | handlers leave the context alone, so `confirm` finds the result of a function that ran |
| `MetadataInv` | the keys that are set tell which handlers have passed |
| `TimerInv` | the monitor comes after the handler that sets the clock, also past Before advice that was cut short |
| `ReturningInv` | AfterReturning advice lies behind a call whose function worked |
| `AuditInv` | one record exactly if the audit handler has run |

and, for the program, that the requests are those of the programs (`RequestInv`), that every
registered function stays prepared (`SetupInv`), who makes call 2 (`NotifyInv`), and where
the main goroutine and `WithRetry` are (`SingleInv`, `RetryInv`: all attempts but the
last have failed).  `ErrorInv` adds that the error `WithRetry` keeps is that of the attempt
made last.

The set-up of a program is computed by folds over its list of `MustAddAdvice` calls, which
the provers cannot unroll.  So the theorems are about any initial registry in which
each function is `Prepared`; that the three programs leave such registries behind is
`SetupAssumption`, which TLC evaluates in the run `examples`.  It also makes the theorems
say more: other handlers, and other priorities in the same order, do no harm.

**ChainProofs.**  `AppendsAreKept` (NothingLost), `CopiesAreComplete` (ReaderComplete) and
`QuietCopiesAreWhole` (TornOnlyDuringAppend), for any number of appends and copies.
`AppendInv` says, for each place of the one append under way, which slots hold attached
advice (`Holds`) and which it is going to write (`Reserved`).  `ReadInv` says that a
reader's pointer and length, loaded apart, still cover what was attached before: arrays
that a list has left keep their contents, and lengths only grow.

**CircuitProofs.**  `CircuitTypeCorrect` (TypeOK), `CircuitLimits` (WithinLimits), `CircuitOpensForReason`
(OpensAfterStreak), `CircuitStates` (StatesInOrder) and `ProbesDecide`
(FailedProbeReopens), for any number of callers and any limits.  The strengthening
ties the failure counter to the history: in a closed circuit it is the length of the
streak (`Counted`), and after an opening it keeps the full count until a success
comes in while the circuit is open (`Remembered`).

**CacheProofs.**  `NeverFetchedAgain` (FetchedOnce), for any number of callers, keys and
calls.  The invariant (`Kept`) says that what a caller has fetched since the last expiry is
cached or about to be stored by that caller, so that a caller which misses has not
fetched its key.

## 5. What is only model-checked

* Liveness: EveryCallReturns, EveryCallEnds, ProbedAgain, RequestAnswered.  The proof
  system has no means for fairness and ENABLED; the safety half of the first is proved
  (`NoDeadlock`), and of a single call that it comes nearer to its end with every step
  (`CallsTerminate`).
* `SetupAssumption`, that is, what the set-up functions of the three programs compute.

Observations that no text of the repository contradicts, so that they are no findings:

* A success that comes in late, while the circuit is open, clears the failures, and the
  next failed probe then leaves the circuit half-open.  FailedProbeReopens shows that it
  is the only way a probe can fail without opening the circuit.
* When the service behind the circuit breaker panics, its After advice counts a success.
* `01_basic_usage/main.go:140` logs "continuing execution" from AfterThrowing advice, but
  the panic is raised again after it.
* `examples/README.md:80` calls the retry an advice; the code retries around the wrapped
  function, so that all advice runs for every attempt.
* Without a token of eight characters a handler of `ProcessPayment` panics, and the
  payment is neither made nor retried.

## 6. Where the code and its documentation disagree

* `after_always`: "After advice ... always runs" (`aspect/advice.go:10`), but
  `executeAdviceList` stops at the first After handler that fails
  (`advice.go:123`).  What does hold, and is proved, is `CleanupAttempted`.
* `throwing`: "AfterThrowing advice executes only if the function panics"
  (`aspect/advice.go:13`), but an error of Before or Around advice is raised as a panic
  (`wrap.go:209`, `wrap.go:215`), and AfterThrowing advice runs for it although the
  function has not been called; it also runs for a panic of any handler of the body.
  What does hold, and is proved, is `ThrowingMatchesPanic`: it runs exactly if the body of
  `executeWithAdvice` panicked.
* `audit`: the audit handler tells success from failure by `ctx.Error`
  (`03_authentication/main.go:104`), which a rejection by Before advice does not set: a
  `DeleteUser` that was refused, and never ran, is recorded as a SUCCESS.  The handlers
  of `01_basic_usage/main.go:65` and `05_retry_pattern/main.go:79` have the same pattern.
* `cache_stats`: hits and misses are incremented under the read lock
  (`02_caching_pattern/main.go:32`), so that two lookups at once can lose a count.

Two more need no run of their own, since they follow from `AnswerKept`, which is proved:
a caller of `Wrap1RE` gets nothing from the context.  A call that the circuit breaker
rejects returns `("", nil)`, although the handler puts an error in `ctx.Error`
(`04_circuit_breaker/main.go:78`), and a call that hits the cache returns nil, although
the handler puts the profile in result 0 (`02_caching_pattern/main.go:73`;
`examples/README.md:36` calls that example broken).


## 7. What is not modelled

* Two unsynchronised appends through chain pointers that `RegisterOrGet` or
  `GetAdviceChain` returned: `Add` has no promised outcome there.  In Weave such an append
  is one step; what is lost without the lock is what `LockShared` in ChainRace shows.
* The pointer that `SetGlobalRegistry` replaces is read and written in one step, as
  hardware does; the Go memory model promises less.
* The panic over a torn slot.  A call that copies a list while `AddAdvice` appends to it
  can meet a slot without a handler, and calling that panics; TornOnlyDuringAppend says
  when this can happen.  Weave reads lists in one step, so the properties of Weave and of
  Examples are about calls that meet no such slot.
* `FunctionName` and `Args`: written once and read by handlers that log; `String`:
  formatting.
* The length of delays and time-outs; which of them has passed is a choice.
* `example3_ExhaustedRetries`, which retries a function that is not wrapped, and a
  negative `maxRetries`, for which `WithRetry` returns a nil error without a call and
  which no caller passes (`RetryAssumption`).
* Logging, tests, build files: no behaviour.

## 8. Plan

Done: the library with its refinements (Registry implements RegistryAtomic, Weave
implements WrappedCall), lists in memory, the five examples, and proofs of all safety
properties, those of the programs included.

Left, should the code grow:

1. The circuit breaker and the cache as instances of Weave, like the programs of
   Examples; at present they model the wrapper of their one function directly.
2. ChainRace inside Weave: calls that read lists slot by slot.  The state space is
   far larger, and what would be new is the panic over a torn slot.
