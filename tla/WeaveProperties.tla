-------------------------- MODULE WeaveProperties ---------------------------
(***************************************************************************)
(* What calls of wrapped functions promise.  The properties are about the  *)
(* history ran of a call: the handlers and the target in the order in      *)
(* which they were run, each with its outcome.                             *)
(***************************************************************************)
EXTENDS Weave

RunRecord ==
    [type : Phases, priority : Int, id : AdviceIds \cup {"target"},
     outcome : {"ok", "error", "panic", "goexit"}]

\* Every variable has its type; a call past its lookup has a chain; the lists
\* being run hold advice of the phase the call is in.
TypeOK ==
    /\ reg \in RegistryRecord
    /\ pc \in [Calls -> AdviceTypes \cup {"idle", "bare", "found", "target", "completed",
                                          "recover", "cleanup", "epilogue", "done"}]
    /\ wrapper \in [Calls -> WrapperNames]
    /\ chain \in [Calls -> Nat]
    /\ \A p \in Calls : chain[p] \in 0..Len(reg.chains)
    /\ ctx \in [Calls -> ContextRecord(ResultValues, ErrorValues, PanicValues)]
    /\ todo \in [Calls -> Seq(Advice)]
    /\ exit \in [Calls -> Exits]
    /\ local \in [Calls -> [result : ResultValues, error : ErrorValues \cup {Nil}]]
    /\ ret \in [Calls -> Returns]
    /\ ran \in [Calls -> Seq(RunRecord)]
    /\ inert \in [Calls -> BOOLEAN]
    /\ bare \in [Calls -> Returns]
    /\ atLookup \in [Calls -> AdviceChain]

-----------------------------------------------------------------------------
(* Vocabulary.                                                             *)

Rank == [Before |-> 1, Around |-> 2, target |-> 3,
         AfterReturning |-> 4, AfterThrowing |-> 5, After |-> 6]

Runs(p, type) == {i \in DOMAIN ran[p] : ran[p][i].type = type}
TargetRan(p)  == Runs(p, "target") # {}
Advised(p)    == chain[p] # NoChain
Done(p)       == pc[p] = "done"

\* All advice of a type that was attached when p looked its chain up has run.
RanAll(p, type) ==
    \A k \in DOMAIN atLookup[p][type] :
        \E i \in Runs(p, type) : ran[p][i].id = atLookup[p][type][k].id

\* A handler of that type failed, which ends its list.
Cut(p, type) == \E i \in Runs(p, type) : ran[p][i].outcome # "ok"

\* An outcome that leaves the function it happens in.
Fatal(e) ==
    \/ e.outcome \in {"panic", "goexit"}
    \/ e.outcome = "error" /\ e.type \in {"Before", "Around"}

FatalRuns(p) == {i \in DOMAIN ran[p] : Fatal(ran[p][i])}

\* The body of executeWithAdvice panicked.
BodyPanicked(p) ==
    \E i \in DOMAIN ran[p] :
        /\ ran[p][i].type \notin {"AfterThrowing", "After"}
        /\ Fatal(ran[p][i]) /\ ran[p][i].outcome # "goexit"

\* The exit that a fatal outcome causes.
ExitOf(e) ==
    CASE e.outcome = "goexit" -> Goexit
      [] e.outcome = "panic"  -> Panic(e.type)
      [] e.outcome = "error"  -> Panic(IF e.type = "Before" THEN "before advice failed"
                                                           ELSE "around advice failed")

\* An id tells one piece of advice from another in the same list, and from what may
\* be attached later.
ToldApart(list) ==
    /\ \A i, j \in DOMAIN list : list[i].id = list[j].id => i = j
    /\ \A i \in DOMAIN list, a \in Advices : list[i].id = a.id => list[i] = a

ASSUME IdsAssumption ==
    /\ \A r \in InitialRegistries : \A c \in DOMAIN r.chains : \A t \in AdviceTypes :
          ToldApart(r.chains[c][t])
    /\ \A a, b \in Advices : a.id = b.id => a = b

-----------------------------------------------------------------------------
(* Safety.                                                                 *)

\* Advice runs in the documented order of types and, within a type, by
\* descending priority; nothing runs twice, and nothing of a type runs after a
\* handler of that type has failed (executeAdviceList, executeWithAdvice), even
\* while other goroutines attach advice to the chain.
ExecutionOrder ==
    \A p \in Calls : \A i, j \in DOMAIN ran[p] : i < j =>
        LET a == ran[p][i]
            b == ran[p][j]
        IN  \/ Rank[a.type] < Rank[b.type]
            \/ /\ a.type = b.type /\ a.type # "target"
               /\ a.priority >= b.priority /\ a.id # b.id
               /\ a.outcome = "ok"

\* The target is guarded: it runs only after every Before and Around handler
\* attached by the time of the call has run and returned nil, whatever is
\* attached, unregistered or cleared meanwhile (executeWithAdvice, lines 207-228).
TargetGuarded ==
    \A p \in Calls : Advised(p) /\ TargetRan(p) =>
        \A type \in {"Before", "Around"} : RanAll(p, type) /\ ~Cut(p, type)

\* AfterThrowing advice runs exactly when the body panicked: all of what was
\* attached, up to the first handler that fails; never for a return or a Goexit.
ThrowingMatchesPanic ==
    \A p \in Calls : Advised(p) /\ pc[p] \in {"cleanup", "After", "epilogue", "done"} =>
        IF BodyPanicked(p)
        THEN RanAll(p, "AfterThrowing") \/ Cut(p, "AfterThrowing")
        ELSE Runs(p, "AfterThrowing") = {}

\* Only Around advice leaves the target out: if it did not run, a Before or Around
\* handler failed, or there was Around advice and all of it has run.  Skipped set by
\* a Before handler does nothing without Around advice, and set by an Around
\* handler it keeps no other one from running (executeWithAdvice, lines 213-228).
TargetLeftOut ==
    \A p \in Calls : Done(p) /\ ~TargetRan(p) =>
        \/ Cut(p, "Before") \/ Cut(p, "Around")
        \/ Runs(p, "Around") # {} /\ RanAll(p, "Around")

\* AfterReturning advice runs only for success: nothing failed before it, and
\* the target returned a nil error unless Around advice skipped it.
ReturningOnlyOnSuccess ==
    \A p \in Calls : \A i \in Runs(p, "AfterReturning") :
        /\ \A j \in 1..(i - 1) : ~Fatal(ran[p][j])
        /\ IF TargetRan(p) THEN bare[p].kind = "return" /\ bare[p].error = Nil
                           ELSE Runs(p, "Around") # {}

\* However a registered call ends, the After advice attached by the time of the
\* call has run, up to the first After handler that fails.
CleanupAttempted ==
    \A p \in Calls : Advised(p) /\ pc[p] \in {"epilogue", "done"} =>
        RanAll(p, "After") \/ Cut(p, "After")

\* No failure is lost and none is made up: the caller gets a normal return only
\* if nothing fatal happened; otherwise it gets the last fatal outcome, so the
\* target's panic survives recover() and re-panic.  The exception is the
\* unchecked type assertion of Wrap0R and Wrap0RE.
LastFailureWins ==
    \A p \in Calls : Done(p) =>
        IF FatalRuns(p) = {}
        THEN \/ ret[p].kind = "return"
             \/ /\ ret[p] = Answer(Panic("type assertion"), Zero, Nil)
                /\ wrapper[p] \in {"Wrap0R", "Wrap0RE"}
                /\ GetResult(ctx[p], 0) \in ForeignValues
        ELSE \E i \in FatalRuns(p) :
                /\ \A j \in FatalRuns(p) : j <= i
                /\ ret[p] = Answer(ExitOf(ran[p][i]), Zero, Nil)

\* Weaving is transparent: if no handler fails or touches the context, the
\* caller gets exactly what the target alone would have given it.
Transparency ==
    \A p \in Calls : Done(p) /\ inert[p] => TargetRan(p) /\ ret[p] = bare[p]

\* What the caller gets in place of the target's answer: only Wrap0R and Wrap0RE
\* let handlers change the answer of a target that ran, Wrap1R does when Skipped
\* is set, and the results handed over are of the target's result type.
AnswerKept ==
    \A p \in Calls : Done(p) /\ ret[p].kind = "return" =>
        /\ ret[p].result \notin ForeignValues
        /\ ret[p].result # bare[p].result =>
              /\ wrapper[p] \in {"Wrap0R", "Wrap0RE", "Wrap1R"}
              /\ wrapper[p] = "Wrap1R" => ctx[p].skipped
              /\ ret[p].result = GetResult(ctx[p], 0)
        /\ ret[p].error # bare[p].error =>
              wrapper[p] = "Wrap0RE" /\ ret[p].error = ctx[p].error

\* If Around advice set a result of the right type and skipped the target, the
\* caller of a wrapper that looks at the context gets that result.
SkipResultUsed ==
    \A p \in Calls :
        /\ Done(p) /\ ret[p].kind = "return"
        /\ Advised(p) /\ ~TargetRan(p) /\ ctx[p].skipped
        /\ wrapper[p] \in {"Wrap0R", "Wrap0RE", "Wrap1R"}
        /\ GetResult(ctx[p], 0) \notin ForeignValues \cup {Nil}
        => ret[p].result = GetResult(ctx[p], 0)

-----------------------------------------------------------------------------
(* The abstract specification.                                             *)

NoAnswer == [kind |-> "none"]

\* A call of the woven function, seen from outside: lookup, defers, handlers and
\* recover() are hidden, only what the target and the caller see is left.
Status ==
    [p \in Calls |-> CASE pc[p] = "idle" -> "idle"
                       [] pc[p] = "done" -> "returned"
                       [] OTHER          -> "called"]
Effect  == [p \in Calls |-> IF TargetRan(p) THEN bare[p] ELSE NoAnswer]
Meddled == [p \in Calls |-> ~inert[p]]
Given   == [p \in Calls |-> IF Done(p) THEN ret[p] ELSE NoAnswer]

Abstract == INSTANCE WrappedCall WITH
    Answers <- Returns, status <- Status, effect <- Effect, meddled <- Meddled, answer <- Given

\* Weaving implements what WrapN promises: the target runs at most once and never
\* after its caller has gone on, and advice that returns nil and leaves the
\* context alone changes nothing for the caller (executeWithAdvice, WrapN).
ImplementsWrappedCall == Abstract!Spec

-----------------------------------------------------------------------------
(* What the documentation says and the code does not do.                   *)

\* advice.go:10, "After advice executes after the target function (always runs,
\* even on panic)".
AfterAlwaysRuns ==
    \A p \in Calls : Advised(p) /\ Done(p) => RanAll(p, "After")

\* advice.go:13, "AfterThrowing advice executes only if the function panics."
ThrowingOnlyIfFunctionPanics ==
    \A p \in Calls : Runs(p, "AfterThrowing") # {} =>
        TargetRan(p) /\ bare[p].kind = "panic"
=============================================================================
