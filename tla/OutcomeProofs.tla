--------------------------- MODULE OutcomeProofs ----------------------------
(***************************************************************************)
(* Proofs of the order in which a call of a wrapped function runs advice,  *)
(* and of what it makes of the outcomes of its target and handlers: which  *)
(* of the later advice runs, what the caller gets, and that a call         *)
(* implements WrappedCall.  WeaveProofs has the invariant that the two of  *)
(* this module rest on.                                                    *)
(***************************************************************************)
EXTENDS WeaveProofs

-----------------------------------------------------------------------------
(* The inductive invariant, for one call p.                                *)

\* The places before the target, and the places that a failure has not left.
Early == {"idle", "bare", "found", "Before", "Around", "target"}
Body  == Early \cup {"completed", "AfterReturning"}

\* What the closure has kept of the target's outcome.
BareInv(p) ==
    /\ local[p].result = bare[p].result /\ local[p].error = bare[p].error
    /\ bare[p].result \notin ForeignValues \cup {Nil}
    /\ ~TargetRan(p) \/ bare[p].kind # "return" => bare[p].result = Zero /\ bare[p].error = Nil
    /\ bare[p].kind # "return" => FatalRuns(p) # {}

\* The recovered panic is that of the body, and AfterThrowing goes with it.
PanicInv(p) ==
    /\ pc[p] \in Body => FatalRuns(p) = {}
    /\ pc[p] \in Body \cup {"recover"} => Runs(p, "AfterThrowing") = {}
    /\ pc[p] = "recover" => (exit[p].kind = "panic" <=> BodyPanicked(p))
    /\ pc[p] = "AfterThrowing" => BodyPanicked(p)
    /\ Advised(p) /\ pc[p] \in {"cleanup", "After", "epilogue", "done"} =>
          IF BodyPanicked(p)
          THEN RanAll(p, "AfterThrowing") \/ Cut(p, "AfterThrowing")
          ELSE Runs(p, "AfterThrowing") = {}

\* The target returned a nil error, or Around advice took its place.
Succeeded(p) ==
    IF TargetRan(p) THEN bare[p].kind = "return" /\ bare[p].error = Nil
                    ELSE Runs(p, "Around") # {}

NothingFatalBefore(p, type) ==
    \A i \in Runs(p, type) : \A j \in 1..(i - 1) : ~Fatal(ran[p][j])

\* AfterReturning advice is reached with a success only: ctx.Error, which the code
\* looks at, is not less than the error that the target returned.
SuccessInv(p) ==
    /\ pc[p] \in Early \cup {"completed"} => Runs(p, "AfterReturning") = {}
    /\ pc[p] = "Around" => todo[p] # <<>> \/ Runs(p, "Around") # {}
    /\ pc[p] = "completed" /\ TargetRan(p) => bare[p].error \in {Nil, ctx[p].error}
    /\ pc[p] = "completed" /\ ~TargetRan(p) => Runs(p, "Around") # {}
    /\ pc[p] = "AfterReturning" \/ Runs(p, "AfterReturning") # {} => Succeeded(p)
    /\ NothingFatalBefore(p, "AfterReturning")

\* With inert advice the context has nothing but what the target has returned.
InertInv(p) == inert[p] =>
    /\ ~ctx[p].skipped
    /\ GetResult(ctx[p], 0) \in {Nil, bare[p].result}
    /\ ctx[p].error \in {Nil, bare[p].error}
    /\ TargetRan(p) => exit[p].kind = bare[p].kind /\ exit[p].value = bare[p].value
    /\ ~TargetRan(p) =>
          pc[p] \in Early /\ GetResult(ctx[p], 0) = Nil /\ ctx[p].error = Nil

\* What the caller was given.
KeptAnswer(p) ==
    /\ ret[p].result \notin ForeignValues
    /\ ret[p].result # bare[p].result =>
          /\ wrapper[p] \in {"Wrap0R", "Wrap0RE", "Wrap1R"}
          /\ wrapper[p] = "Wrap1R" => ctx[p].skipped
          /\ ret[p].result = GetResult(ctx[p], 0)
    /\ ret[p].error # bare[p].error =>
          wrapper[p] = "Wrap0RE" /\ ret[p].error = ctx[p].error

SkipUsed(p) ==
    /\ ctx[p].skipped /\ wrapper[p] \in {"Wrap0R", "Wrap0RE", "Wrap1R"}
    /\ GetResult(ctx[p], 0) \notin ForeignValues \cup {Nil}
    => ret[p].result = GetResult(ctx[p], 0)

ReturnInv(p) == Done(p) =>
    /\ ret[p].kind = "return" => KeptAnswer(p) /\ SkipUsed(p)
    /\ inert[p] => ret[p] = bare[p]

OutcomeInv(p) ==
    /\ BareInv(p)
    /\ PanicInv(p)
    /\ SuccessInv(p)
    /\ InertInv(p)
    /\ ReturnInv(p)

OInv == IInv /\ \A p \in Calls : OutcomeInv(p)

-----------------------------------------------------------------------------
(* Steps of other goroutines.                                              *)

\* Nothing of call q changes, history and captured variables included.
Apart(q) ==
    /\ Untouched(q)
    /\ local'[q] = local[q] /\ inert'[q] = inert[q] /\ bare'[q] = bare[q]

LEMMA ApartKept ==
    ASSUME NEW q \in Calls, Apart(q), OutcomeInv(q)
    PROVE  OutcomeInv(q)'
<1>1. /\ \A t : Runs(q, t)' = Runs(q, t)
      /\ \A t : RanAll(q, t)' = RanAll(q, t)
      /\ \A t : Cut(q, t)' = Cut(q, t)
      /\ TargetRan(q)' = TargetRan(q)
      /\ FatalRuns(q)' = FatalRuns(q)
      /\ Advised(q)' = Advised(q)
      /\ BodyPanicked(q)' = BodyPanicked(q)
      /\ NothingFatalBefore(q, "AfterReturning")' = NothingFatalBefore(q, "AfterReturning")
    BY DEF Apart, Untouched, Runs, RanAll, Cut, TargetRan, FatalRuns, Advised, BodyPanicked,
           NothingFatalBefore
<1> USE <1>1 DEF Apart, Untouched, OutcomeInv
<1>2. BareInv(q)'
    BY DEF BareInv
<1>3. PanicInv(q)'
    BY DEF PanicInv
<1>4. SuccessInv(q)'
    BY DEF SuccessInv, Succeeded
<1>5. InertInv(q)'
    BY DEF InertInv
<1>6. ReturnInv(q)'
    BY DEF ReturnInv, KeptAnswer, SkipUsed, Done
<1> QED
    BY <1>2, <1>3, <1>4, <1>5, <1>6

LEMMA OthersApart ==
    ASSUME TypeOK, NEW p \in Calls, Step(p) \/ \E name \in Names : Invoke(p, name),
           NEW q \in Calls, q # p
    PROVE  Apart(q)
<1>1. Untouched(q)
    BY OthersUntouched
<1> USE DEF TypeOK, frame, fixed, history
<1>2. ASSUME NEW outcome, Call(p, outcome)
      PROVE  local'[q] = local[q] /\ inert'[q] = inert[q] /\ bare'[q] = bare[q]
    BY <1>2 DEF Call
<1>3. ASSUME NEW kind, NEW answer, RunTarget(p, kind, answer)
      PROVE  inert'[q] = inert[q] /\ bare'[q] = bare[q]
    BY <1>3 DEF RunTarget
<1>4. CASE StartBefore(p) \/ FinishBefore(p) \/ FinishAround(p) \/ Complete(p) \/ Recover(p)
           \/ StartAfter(p) \/ FinishList(p) \/ Epilogue(p)
    BY <1>1, <1>4 DEF Apart, StartBefore, FinishBefore, FinishAround, Complete, Recover,
                      StartAfter, FinishList, Epilogue
<1>5. CASE HandlerReturns(p) \/ HandlerFails(p) \/ HandlerRaises(p) \/ HandlerExits(p)
    BY <1>1, <1>2, <1>5 DEF Apart, HandlerReturns, HandlerFails, HandlerRaises, HandlerExits
<1>6. CASE TargetReturns(p)
    BY <1>1, <1>3, <1>6 DEF Apart, TargetReturns
<1>7. CASE TargetPanics(p) \/ TargetExits(p)
    BY <1>1, <1>3, <1>7 DEF Apart, TargetPanics, TargetExits, TargetThrows
<1>8. CASE \E name \in Names : Invoke(p, name)
    BY <1>1, <1>8 DEF Apart, Invoke
<1> QED
    BY <1>4, <1>5, <1>6, <1>7, <1>8 DEF Step

LEMMA EnvironmentApart ==
    ASSUME TypeOK, Environment \/ UNCHANGED vars, NEW q \in Calls
    PROVE  Apart(q)
BY EnvironmentKeeps, StutterKeeps DEF Apart, Environment, vars, frame, fixed, history

-----------------------------------------------------------------------------
(* Steps in which a call runs nothing.                                     *)

\* At most the panic value of p's context changes.
Still(p) ==
    /\ Quiet(p)
    /\ local'[p] = local[p] /\ inert'[p] = inert[p] /\ bare'[p] = bare[p] /\ ret'[p] = ret[p]
    /\ ctx'[p].results = ctx[p].results /\ ctx'[p].error = ctx[p].error
    /\ ctx'[p].skipped = ctx[p].skipped

\* Where such a step leads.
Moves(p) ==
    \/ pc[p] = "found" /\ pc'[p] = "Before"
    \/ pc[p] = "Before" /\ pc'[p] = "Around" /\ todo'[p] # <<>>
    \/ pc[p] = "Before" /\ pc'[p] = "target"
    \/ pc[p] = "Around" /\ pc'[p] = "target"
    \/ pc[p] = "Around" /\ pc'[p] = "completed" /\ todo[p] = <<>> /\ ctx[p].skipped
    \/ pc[p] = "completed" /\ pc'[p] = "AfterReturning" /\ ctx[p].error = Nil
    \/ pc[p] = "completed" /\ pc'[p] = "recover"
    \/ pc[p] = "recover" /\ pc'[p] = "AfterThrowing" /\ exit[p].kind = "panic"
    \/ pc[p] = "recover" /\ pc'[p] = "cleanup" /\ exit[p].kind # "panic"
    \/ pc[p] = "cleanup" /\ pc'[p] = "After"
    \/ pc[p] = "AfterReturning" /\ pc'[p] = "recover"
    \/ pc[p] = "AfterThrowing" /\ pc'[p] = "cleanup" /\ RanAll(p, "AfterThrowing")
    \/ pc[p] = "After" /\ pc'[p] = "epilogue"

\* A list that is loaded has a handler if the chain has one.
LEMMA LoadedNonempty ==
    ASSUME TypeOK, NEW p \in Calls, CallInv(p), pc[p] = "Before",
           HasAround(reg.chains[chain[p]]), Load(p, "Around")
    PROVE  todo'[p] # <<>>
<1>1. chain[p] \in 1..Len(reg.chains) /\ reg \in RegistryRecord /\ "Around" \in AdviceTypes
    BY DEF TypeOK, CallInv, ChainInv, Woven, Advised, NoChain, RegistryRecord, AdviceTypes
<1> DEFINE loaded == reg.chains[chain[p]]["Around"]
<1>2. PICK copy \in SortedCopies(loaded) : todo' = [todo EXCEPT ![p] = copy]
    BY DEF Load
<1>3. loaded \in Seq(Advice) /\ \A k \in DOMAIN loaded : \E m \in DOMAIN copy : copy[m] = loaded[k]
    BY <1>1, LoadedType
<1>4. 1 \in DOMAIN loaded
    BY <1>3 DEF HasAround
<1>5. DOMAIN copy # {}
    BY <1>3, <1>4
<1>6. todo'[p] = copy
    BY <1>2 DEF TypeOK
<1> QED
    BY <1>5, <1>6

LEMMA QuietSteps ==
    ASSUME TypeOK, NEW p \in Calls, CallInv(p),
           StartBefore(p) \/ FinishBefore(p) \/ FinishAround(p) \/ Complete(p) \/ Recover(p)
              \/ StartAfter(p) \/ FinishList(p)
    PROVE  Still(p) /\ Moves(p)
<1> USE DEF TypeOK, Still, Quiet, Moves, Goto, Load, frame, fixed, history
<1>1. CASE StartBefore(p) \/ StartAfter(p)
    BY <1>1 DEF StartBefore, StartAfter
<1>2. CASE FinishBefore(p)
    <2>1. CASE HasAround(reg.chains[chain[p]])
        BY <1>2, <2>1, LoadedNonempty DEF FinishBefore
    <2>2. CASE ~HasAround(reg.chains[chain[p]])
        BY <1>2, <2>2 DEF FinishBefore
    <2> QED
        BY <2>1, <2>2
<1>3. CASE FinishAround(p)
    BY <1>3 DEF FinishAround
<1>4. CASE Complete(p)
    BY <1>4 DEF Complete
<1>5. CASE Recover(p)
    <2>1. CASE exit[p].kind = "panic"
        <3>1. ctx' = [ctx EXCEPT ![p].panicValue = exit[p].value]
            BY <1>5, <2>1 DEF Recover
        <3>2. /\ ctx'[p].results = ctx[p].results /\ ctx'[p].error = ctx[p].error
              /\ ctx'[p].skipped = ctx[p].skipped
            BY <3>1 DEF ContextRecord
        <3> QED
            BY <1>5, <2>1, <3>2 DEF Recover
    <2>2. CASE exit[p].kind # "panic"
        BY <1>5, <2>2 DEF Recover
    <2> QED
        BY <2>1, <2>2
<1>6. CASE FinishList(p)
    <2>1. RanAll(p, pc[p])
        BY <1>6, ListDone DEF FinishList, CallInv, AdviceTypes
    <2> QED
        BY <1>6, <2>1 DEF FinishList, Leave, Unwind
<1> QED
    BY <1>1, <1>2, <1>3, <1>4, <1>5, <1>6

\* How a call is left is told by the fatal outcomes.
LEMMA CleanExit ==
    ASSUME NEW p \in Calls, ExitInv(p), FatalRuns(p) = {}
    PROVE  exit[p] = Returned /\ ~BodyPanicked(p)
BY DEF ExitInv, FatalRuns, BodyPanicked

LEMMA StillKeeps ==
    ASSUME TypeOK, NEW p \in Calls, CallInv(p), OutcomeInv(p), Still(p), Moves(p)
    PROVE  OutcomeInv(p)'
<1>1. /\ BodyPanicked(p)' = BodyPanicked(p)
      /\ NothingFatalBefore(p, "AfterReturning")' = NothingFatalBefore(p, "AfterReturning")
      /\ GetResult(ctx[p], 0)' = GetResult(ctx[p], 0)
    BY DEF Still, Quiet, BodyPanicked, NothingFatalBefore, Runs, GetResult
<1>2. /\ \A t : Runs(p, t)' = Runs(p, t)
      /\ \A t : RanAll(p, t)' = RanAll(p, t)
      /\ \A t : Cut(p, t)' = Cut(p, t)
      /\ TargetRan(p)' = TargetRan(p)
      /\ FatalRuns(p)' = FatalRuns(p)
      /\ Advised(p)' = Advised(p)
    BY QuietKeeps DEF Still
<1>3. FatalRuns(p) = {} => exit[p] = Returned /\ exit[p].kind = "return" /\ ~BodyPanicked(p)
    BY CleanExit DEF CallInv, Returned
<1> USE <1>1, <1>2 DEF Still, Quiet, OutcomeInv
<1>4. BareInv(p)'
    BY DEF BareInv
<1>5. PanicInv(p)'
    BY <1>3 DEF PanicInv, Moves, Body, Early
<1>6. SuccessInv(p)'
    <2>1. pc'[p] \in Early \cup {"completed"} => pc[p] \in Early \cup {"completed"}
        BY DEF Moves, Early
    <2>2. pc'[p] = "Around" => todo'[p] # <<>>
        BY DEF Moves
    <2>3. pc'[p] = "completed" => ~TargetRan(p) /\ Runs(p, "Around") # {}
        BY DEF Moves, CallInv, FreshInv, NotYetTarget, SuccessInv
    <2>4. Succeeded(p)' = Succeeded(p)
        BY DEF Succeeded
    <2>5. pc'[p] = "AfterReturning" => Succeeded(p)
        BY DEF Moves, SuccessInv, Succeeded, BareInv, PanicInv, Body
    <2> QED
        BY <2>1, <2>2, <2>3, <2>4, <2>5 DEF SuccessInv
<1>7. InertInv(p)'
    BY DEF InertInv, Moves, Early
<1>8. ReturnInv(p)'
    BY DEF ReturnInv, Moves, Done
<1> QED
    BY <1>4, <1>5, <1>6, <1>7, <1>8

-----------------------------------------------------------------------------
(* Steps in which a call runs a handler or its target.                     *)

LEMMA AddsOutcome ==
    ASSUME TypeOK, NEW p \in Calls, NEW e, Adds(p, e)
    PROVE  /\ FatalRuns(p)' = {} <=> FatalRuns(p) = {} /\ ~Fatal(e)
           /\ BodyPanicked(p)' <=>
                 \/ BodyPanicked(p)
                 \/ /\ e.type \notin {"AfterThrowing", "After"}
                    /\ Fatal(e) /\ e.outcome # "goexit"
           /\ \A t : Runs(p, t)' = {} <=> Runs(p, t) = {} /\ t # e.type
           /\ TargetRan(p)' <=> TargetRan(p) \/ e.type = "target"
           /\ NothingFatalBefore(p, "AfterReturning")
                 /\ (e.type # "AfterReturning" \/ FatalRuns(p) = {})
              => NothingFatalBefore(p, "AfterReturning")'
<1> DEFINE n == Len(ran[p]) + 1
<1>1. ran[p] \in Seq(RunRecord) /\ Len(ran[p]) \in Nat /\ DOMAIN ran[p] = 1..Len(ran[p])
    BY DEF TypeOK
<1>2. ran'[p] = Append(ran[p], e)
    BY DEF Adds, TypeOK
<1>3. /\ DOMAIN ran'[p] = DOMAIN ran[p] \cup {n}
      /\ n \notin DOMAIN ran[p] /\ n \in Nat
      /\ \A i \in DOMAIN ran[p] : i < n /\ i \in Nat /\ 1..(i - 1) \subseteq DOMAIN ran[p]
      /\ 1..(n - 1) = DOMAIN ran[p]
      /\ \A i \in DOMAIN ran[p] : ran'[p][i] = ran[p][i]
      /\ ran'[p][n] = e
    BY <1>1, <1>2 DEF Adds
<1> HIDE DEF n
<1>4. \A t : Runs(p, t)' = Runs(p, t) \cup (IF t = e.type THEN {n} ELSE {})
    BY <1>3 DEF Runs
<1>5. FatalRuns(p)' = FatalRuns(p) \cup (IF Fatal(e) THEN {n} ELSE {})
    BY <1>3 DEF FatalRuns
<1>6. BodyPanicked(p)' <=>
         \/ BodyPanicked(p)
         \/ e.type \notin {"AfterThrowing", "After"} /\ Fatal(e) /\ e.outcome # "goexit"
    BY <1>3 DEF BodyPanicked, Fatal
<1>7. ASSUME NothingFatalBefore(p, "AfterReturning"),
             e.type # "AfterReturning" \/ FatalRuns(p) = {},
             NEW i \in Runs(p, "AfterReturning")', NEW j \in 1..(i - 1)
      PROVE  ~Fatal(ran'[p][j])
    <2>1. CASE i = n
        <3>1. e.type = "AfterReturning" /\ FatalRuns(p) = {} /\ j \in DOMAIN ran[p]
            BY <1>3, <1>4, <1>7, <2>1 DEF Runs
        <3> QED
            BY <1>3, <3>1 DEF FatalRuns
    <2>2. CASE i # n
        <3>1. i \in Runs(p, "AfterReturning") /\ i \in DOMAIN ran[p] /\ j \in DOMAIN ran[p]
            BY <1>3, <1>4, <2>2 DEF Runs
        <3>2. ~Fatal(ran[p][j]) /\ ran'[p][j] = ran[p][j]
            BY <1>3, <1>7, <3>1 DEF NothingFatalBefore
        <3> QED
            BY <3>2
    <2> QED
        BY <2>1, <2>2
<1> QED
    BY <1>4, <1>5, <1>6, <1>7 DEF TargetRan, NothingFatalBefore, Fatal

\* What any handler of p does, and where it leads.
Handles(p, e) ==
    /\ Adds(p, e)
    /\ pc[p] \in AdviceTypes /\ e.type = pc[p]
    /\ local'[p] = local[p] /\ bare'[p] = bare[p] /\ ret'[p] = ret[p]
    /\ inert'[p] => inert[p] /\ e.outcome = "ok" /\ ctx'[p] = ctx[p]
    /\ \/ e.outcome = "ok" /\ pc'[p] = pc[p]
       \/ e.outcome # "ok" /\ pc'[p] = Unwind(pc[p])
    /\ \/ Fatal(e) /\ exit'[p] = ExitOf(e)
       \/ ~Fatal(e) /\ exit'[p] = exit[p]

LEMMA HandlerSteps ==
    ASSUME TypeOK, NEW p \in Calls,
           HandlerReturns(p) \/ HandlerFails(p) \/ HandlerRaises(p) \/ HandlerExits(p)
    PROVE  \E e : Handles(p, e)
<1>1. ASSUME NEW outcome, Call(p, outcome)
      PROVE  \E e : /\ Adds(p, e) /\ e.type = pc[p] /\ e.outcome = outcome
                    /\ pc[p] \in AdviceTypes
                    /\ local'[p] = local[p] /\ bare'[p] = bare[p] /\ ret'[p] = ret[p]
                    /\ inert'[p] => inert[p] /\ e.outcome = "ok" /\ ctx'[p] = ctx[p]
    <2>1. PICK e : Adds(p, e) /\ e.type = pc[p] /\ e.outcome = outcome
        BY <1>1, CallAdds
    <2>2. PICK c \in Touched(ctx[p]) :
              /\ ctx' = [ctx EXCEPT ![p] = c]
              /\ inert' = [inert EXCEPT ![p] = @ /\ outcome = "ok" /\ c = ctx[p]]
        BY <1>1 DEF Call
    <2>3. ctx'[p] = c /\ (inert'[p] <=> inert[p] /\ outcome = "ok" /\ c = ctx[p])
        BY <2>2 DEF TypeOK
    <2> QED
        BY <1>1, <2>1, <2>3 DEF Call
<1>2. CASE HandlerReturns(p)
    <2>1. PICK e : /\ Adds(p, e) /\ e.type = pc[p] /\ e.outcome = "ok"
                   /\ pc[p] \in AdviceTypes
                   /\ local'[p] = local[p] /\ bare'[p] = bare[p] /\ ret'[p] = ret[p]
                   /\ inert'[p] => inert[p] /\ e.outcome = "ok" /\ ctx'[p] = ctx[p]
        BY <1>1, <1>2 DEF HandlerReturns
    <2> QED
        BY <1>2, <2>1 DEF HandlerReturns, Handles, Fatal
<1>3. ASSUME NEW outcome \in {"error", "panic", "goexit"}, NEW x,
             Call(p, outcome), Leave(p, x),
             x = CASE outcome = "goexit" -> Goexit
                   [] outcome = "panic"  -> Panic(pc[p])
                   [] outcome = "error" /\ pc[p] = "Before" -> Panic("before advice failed")
                   [] outcome = "error" /\ pc[p] = "Around" -> Panic("around advice failed")
                   [] OTHER -> exit[p]
      PROVE  \E e : Handles(p, e)
    <2>1. PICK e : /\ Adds(p, e) /\ e.type = pc[p] /\ e.outcome = outcome
                   /\ pc[p] \in AdviceTypes
                   /\ local'[p] = local[p] /\ bare'[p] = bare[p] /\ ret'[p] = ret[p]
                   /\ inert'[p] => inert[p] /\ e.outcome = "ok" /\ ctx'[p] = ctx[p]
        BY <1>1, <1>3
    <2>2. pc'[p] = Unwind(pc[p]) /\ exit'[p] = x
        BY <1>3 DEF Leave, Goto, TypeOK
    <2>3. \/ Fatal(e) /\ exit'[p] = ExitOf(e)
          \/ ~Fatal(e) /\ exit'[p] = exit[p]
        BY <1>3, <2>1, <2>2 DEF Fatal, ExitOf
    <2> QED
        BY <1>3, <2>1, <2>2, <2>3 DEF Handles
<1>4. CASE HandlerFails(p)
    <2> DEFINE x == CASE pc[p] = "Before" -> Panic("before advice failed")
                      [] pc[p] = "Around" -> Panic("around advice failed")
                      [] OTHER            -> exit[p]
    <2>1. Call(p, "error") /\ Leave(p, x)
        BY <1>4 DEF HandlerFails
    <2> QED
        BY <1>3, <2>1
<1>5. CASE HandlerRaises(p)
    BY <1>3, <1>5 DEF HandlerRaises
<1>6. CASE HandlerExits(p)
    BY <1>3, <1>6 DEF HandlerExits
<1> QED
    BY <1>2, <1>4, <1>5, <1>6

LEMMA ExitKinds ==
    ASSUME NEW e, Fatal(e)
    PROVE  /\ ExitOf(e).kind \in {"panic", "goexit"}
           /\ ExitOf(e).kind = "panic" <=> e.outcome # "goexit"
<1>1. CASE e.outcome = "goexit"
    BY <1>1 DEF ExitOf, Goexit
<1>2. CASE e.outcome = "panic"
    BY <1>2 DEF ExitOf, Panic
<1>3. CASE e.outcome = "error"
    BY <1>3 DEF ExitOf, Panic
<1> QED
    BY <1>1, <1>2, <1>3 DEF Fatal

\* A handler of p keeps the invariant, however it ends.
LEMMA HandlesKeeps ==
    ASSUME TypeOK, NEW p \in Calls, CallInv(p), CallInv(p)', OutcomeInv(p), NEW e, Handles(p, e)
    PROVE  OutcomeInv(p)'
<1>1. /\ FatalRuns(p)' = {} <=> FatalRuns(p) = {} /\ ~Fatal(e)
      /\ BodyPanicked(p)' <=>
            \/ BodyPanicked(p)
            \/ e.type \notin {"AfterThrowing", "After"} /\ Fatal(e) /\ e.outcome # "goexit"
      /\ \A t : Runs(p, t)' = {} <=> Runs(p, t) = {} /\ t # e.type
      /\ TargetRan(p)' <=> TargetRan(p)
      /\ NothingFatalBefore(p, "AfterReturning")
            /\ (e.type # "AfterReturning" \/ FatalRuns(p) = {})
         => NothingFatalBefore(p, "AfterReturning")'
    BY AddsOutcome DEF Handles, AdviceTypes
<1>2. /\ \A t : RanAll(p, t) => RanAll(p, t)'
      /\ \A t : Cut(p, t)' <=> (Cut(p, t) \/ (t = e.type /\ e.outcome # "ok"))
      /\ Advised(p)' = Advised(p)
    BY AddsRecord DEF Handles
<1>3. FatalRuns(p) = {} => exit[p] = Returned /\ exit[p].kind = "return" /\ ~BodyPanicked(p)
    BY CleanExit DEF CallInv, Returned
<1>4. pc[p] \in AdviceTypes /\ e.type = pc[p] /\ e.outcome \in {"ok", "error", "panic", "goexit"}
      /\ wrapper'[p] = wrapper[p]
    BY DEF Handles, Adds, RunRecord, fixed
<1> USE <1>1, <1>4 DEF Handles, OutcomeInv, AdviceTypes
<1>5. BareInv(p)'
    BY DEF BareInv
<1>6. PanicInv(p)'
    <2>1. pc[p] \in Body /\ Fatal(e) => (exit'[p].kind = "panic" <=> e.outcome # "goexit")
        BY ExitKinds
    <2>2. pc'[p] \in Body => pc[p] \in Body /\ ~Fatal(e)
        BY DEF Body, Early, Unwind, Fatal
    <2>3. pc'[p] = "recover" => pc[p] \in Body
        BY DEF Body, Early, Unwind
    <2>4. pc'[p] = "recover" => (exit'[p].kind = "panic" <=> BodyPanicked(p)')
        BY <1>3, <2>1, <2>3 DEF PanicInv, Body, Early, Fatal
    <2>5. pc'[p] = "AfterThrowing" => BodyPanicked(p)'
        BY DEF Unwind, PanicInv
    <2>6. ASSUME pc'[p] \in {"cleanup", "After", "epilogue", "done"}, Advised(p)
          PROVE  IF BodyPanicked(p)'
                 THEN RanAll(p, "AfterThrowing")' \/ Cut(p, "AfterThrowing")'
                 ELSE Runs(p, "AfterThrowing")' = {}
        <3>1. pc[p] \in {"AfterThrowing", "After"}
            BY <2>6 DEF Unwind
        <3>2. BodyPanicked(p)' <=> BodyPanicked(p)
            BY <3>1
        <3>3. CASE pc[p] = "AfterThrowing"
            <4>1. e.outcome # "ok"
                BY <2>6, <3>3
            <4> QED
                BY <1>2, <3>2, <3>3, <4>1 DEF PanicInv
        <3>4. CASE pc[p] = "After"
            BY <1>2, <2>6, <3>2, <3>4 DEF PanicInv
        <3> QED
            BY <3>1, <3>3, <3>4
    <2> QED
        BY <1>2, <2>2, <2>3, <2>4, <2>5, <2>6 DEF PanicInv, Body, Early
<1>7. SuccessInv(p)'
    <2>1. Succeeded(p) => Succeeded(p)'
        BY DEF Succeeded
    <2>2. pc'[p] \in Early \cup {"completed"} => pc[p] \in Early
        BY DEF Early, Unwind
    <2>3. pc[p] = "AfterReturning" => FatalRuns(p) = {}
        BY DEF PanicInv, Body
    <2>4. pc'[p] # "completed" /\ (pc'[p] \in {"Around", "AfterReturning"} => pc'[p] = pc[p])
        BY DEF Unwind
    <2> QED
        BY <2>1, <2>2, <2>3, <2>4 DEF SuccessInv, Early
<1>8. InertInv(p)'
    BY DEF InertInv, Fatal
<1>9. ReturnInv(p)'
    BY DEF ReturnInv, Done, Unwind
<1> QED
    BY <1>5, <1>6, <1>7, <1>8, <1>9

LEMMA StoredContext ==
    ASSUME NEW p \in Calls, NEW c \in ContextRecord(ResultValues, ErrorValues, PanicValues),
           NEW r \in ResultValues, NEW err
    PROVE  /\ Stored(p, c, r, err).skipped = c.skipped
           /\ Stored(p, c, r, err).error = IF Wrapper(p).error THEN err ELSE c.error
           /\ GetResult(Stored(p, c, r, err), 0) =
                 IF Wrapper(p).result THEN r ELSE GetResult(c, 0)
<1>1. Len(c.results) \in Nat /\ c.results \in Seq(ResultValues \cup {Nil})
    BY DEF ContextRecord
<1> DEFINE d == SetResult(c, 0, r)
<1>2. d.skipped = c.skipped /\ d.error = c.error /\ d \in ContextRecord(ResultValues, ErrorValues, PanicValues)
    <2>1. d \in ContextRecord(ResultValues, ErrorValues, PanicValues)
        BY ContextType
    <2> QED
        BY <2>1 DEF SetResult, ContextRecord
<1>3. GetResult(d, 0) = r
    <2> DEFINE n == IF 0 < Len(c.results) THEN Len(c.results) ELSE 0 + 1
               f == [i \in 1..n |->
                        CASE i = 0 + 1 -> r
                          [] i # 0 + 1 /\ i <= Len(c.results) -> c.results[i]
                          [] OTHER -> Nil]
    <2>1. n \in Nat /\ n >= 1
        BY <1>1
    <2>2. d = [c EXCEPT !.results = f]
        BY DEF SetResult
    <2>3. d.results = f
        <3> HIDE DEF f
        <3> QED
            BY <2>2 DEF ContextRecord
    <2>4. DOMAIN f = 1..n /\ f[1] = r
        BY <2>1
    <2>5. d.results \in Seq(ResultValues \cup {Nil})
        BY <1>2 DEF ContextRecord
    <2>6. Len(d.results) = n
        BY <2>1, <2>3, <2>4, <2>5
    <2> HIDE DEF f, n, d
    <2> QED
        BY <2>1, <2>3, <2>4, <2>6 DEF GetResult
<1> HIDE DEF d
<1>4. ASSUME NEW b \in ContextRecord(ResultValues, ErrorValues, PanicValues)
      PROVE  LET f == [b EXCEPT !.error = err]
             IN  f.error = err /\ f.skipped = b.skipped /\ f.results = b.results
    BY DEF ContextRecord
<1> QED
    BY <1>2, <1>3, <1>4 DEF Stored, d, GetResult

LEMMA TargetReturnsOutcome ==
    ASSUME TypeOK, NEW p \in Calls, CallInv(p), OutcomeInv(p), TargetReturns(p)
    PROVE  OutcomeInv(p)'
<1>1. PICK r \in IF Wrapper(p).result THEN TargetValues ELSE {Zero},
           err \in IF Wrapper(p).error THEN TargetErrors \cup {Nil} ELSE {Nil} :
        /\ RunTarget(p, "return", Answer(Returned, r, err))
        /\ local' = [local EXCEPT ![p] = [result |-> r, error |-> err]]
        /\ ctx' = [ctx EXCEPT ![p] = Stored(p, @, r, err)]
        /\ Goto(p, IF pc[p] = "bare" THEN "epilogue" ELSE "completed")
        /\ UNCHANGED exit
    BY DEF TargetReturns
<1>2. PICK e : Adds(p, e) /\ e.type = "target" /\ e.outcome = "ok"
    BY <1>1, TargetAdds
<1>3. r \in ResultValues /\ r \notin ForeignValues \cup {Nil}
    BY WeaveAssumption DEF ResultValues, Zero, Nil
<1>4. /\ pc[p] \in {"target", "bare"} /\ inert'[p] = inert[p] /\ ret' = ret /\ exit' = exit
      /\ pc'[p] = IF pc[p] = "bare" THEN "epilogue" ELSE "completed"
      /\ bare'[p] = Answer(Returned, r, err)
      /\ local'[p].result = r /\ local'[p].error = err
      /\ ctx'[p] = Stored(p, ctx[p], r, err)
    BY <1>1 DEF RunTarget, Goto, TypeOK
<1>5. /\ bare'[p].kind = "return" /\ bare'[p].value = Nil
      /\ bare'[p].result = r /\ bare'[p].error = err
    BY <1>4 DEF Answer, Returned
<1>6. /\ FatalRuns(p)' = {} <=> FatalRuns(p) = {}
      /\ \A t : Runs(p, t)' = {} <=> Runs(p, t) = {} /\ t # "target"
      /\ TargetRan(p)'
      /\ NothingFatalBefore(p, "AfterReturning") => NothingFatalBefore(p, "AfterReturning")'
    BY <1>2, AddsOutcome DEF Fatal
<1>7. ~TargetRan(p) /\ (pc[p] = "bare" => ~Advised(p)) /\ Advised(p)' = Advised(p)
    <2>1. pc[p] = "bare" => ~TargetRan(p)
        BY DEF CallInv, FreshInv, NothingRun, TargetRan, Runs
    <2> QED
        BY <1>2, <1>4, <2>1, AddsRecord DEF CallInv, FreshInv, NotYetTarget, ChainInv
<1>8. FatalRuns(p) = {} /\ exit[p].kind = "return" /\ exit[p].value = Nil
    <2>1. FatalRuns(p) = {}
        BY <1>4 DEF OutcomeInv, PanicInv, Body, Early
    <2> QED
        BY <2>1, CleanExit DEF CallInv, Returned
<1>9. /\ ctx'[p].skipped = ctx[p].skipped
      /\ ctx'[p].error = IF Wrapper(p).error THEN err ELSE ctx[p].error
      /\ GetResult(ctx'[p], 0) = IF Wrapper(p).result THEN r ELSE GetResult(ctx[p], 0)
    BY <1>3, <1>4, StoredContext DEF TypeOK
<1> USE DEF OutcomeInv
<1>10. BareInv(p)'
    BY <1>3, <1>4, <1>5, <1>6 DEF BareInv
<1>11. PanicInv(p)'
    BY <1>4, <1>6, <1>7, <1>8 DEF PanicInv, Body, Early
<1>12. SuccessInv(p)'
    <2>1. Runs(p, "AfterReturning")' = {}
        BY <1>4, <1>6 DEF SuccessInv, Early
    <2>2. err = Nil \/ ctx'[p].error = err
        BY <1>9
    <2> QED
        BY <1>4, <1>5, <1>6, <2>1, <2>2 DEF SuccessInv, Early
<1>13. InertInv(p)'
    BY <1>4, <1>5, <1>6, <1>7, <1>8, <1>9 DEF InertInv
<1>14. ReturnInv(p)'
    BY <1>4 DEF ReturnInv, Done
<1> QED
    BY <1>10, <1>11, <1>12, <1>13, <1>14

LEMMA TargetThrowsOutcome ==
    ASSUME TypeOK, NEW p \in Calls, CallInv(p), OutcomeInv(p),
           NEW kind \in {"panic", "goexit"}, NEW x, TargetThrows(p, kind, x),
           x = IF kind = "panic" THEN Panic("target") ELSE Goexit
    PROVE  OutcomeInv(p)'
<1>1. RunTarget(p, kind, Answer(x, Zero, Nil))
    BY DEF TargetThrows
<1>2. PICK e : Adds(p, e) /\ e.type = "target" /\ e.outcome = kind
    BY <1>1, TargetAdds
<1>3. /\ pc[p] \in {"target", "bare"} /\ inert'[p] = inert[p] /\ ret' = ret
      /\ exit'[p] = x /\ pc'[p] = Unwind(pc[p])
      /\ bare'[p] = Answer(x, Zero, Nil)
      /\ local' = local /\ ctx' = ctx
    BY <1>1 DEF TargetThrows, RunTarget, Goto, TypeOK
<1>4. /\ bare'[p].kind = x.kind /\ bare'[p].value = x.value
      /\ bare'[p].result = Zero /\ bare'[p].error = Nil
      /\ x.kind = kind
    BY <1>3 DEF Answer, Panic, Goexit
<1>5. /\ FatalRuns(p)' # {}
      /\ BodyPanicked(p)' <=> BodyPanicked(p) \/ kind = "panic"
      /\ \A t : Runs(p, t)' = {} <=> Runs(p, t) = {} /\ t # "target"
      /\ TargetRan(p)'
      /\ NothingFatalBefore(p, "AfterReturning") => NothingFatalBefore(p, "AfterReturning")'
    BY <1>2, AddsOutcome DEF Fatal
<1>6. ~TargetRan(p) /\ (pc[p] = "bare" => ~Advised(p)) /\ Advised(p)' = Advised(p)
    <2>1. pc[p] = "bare" => ~TargetRan(p)
        BY DEF CallInv, FreshInv, NothingRun, TargetRan, Runs
    <2> QED
        BY <1>2, <1>3, <2>1, AddsRecord DEF CallInv, FreshInv, NotYetTarget, ChainInv
<1>7. ~BodyPanicked(p)
    <2>1. FatalRuns(p) = {}
        BY <1>3 DEF OutcomeInv, PanicInv, Body, Early
    <2> QED
        BY <2>1, CleanExit DEF CallInv
<1>8. \/ pc[p] = "bare" /\ pc'[p] = "epilogue"
      \/ pc[p] = "target" /\ pc'[p] = "recover"
    BY <1>3 DEF Unwind
<1> USE DEF OutcomeInv
<1>9. BareInv(p)'
    <2>1. Zero \notin ForeignValues \cup {Nil}
        BY WeaveAssumption DEF Zero, Nil
    <2> QED
        BY <1>3, <1>4, <1>5, <1>6, <2>1 DEF BareInv
<1>10. PanicInv(p)'
    BY <1>3, <1>4, <1>5, <1>6, <1>7, <1>8 DEF PanicInv, Body, Early
<1>11. SuccessInv(p)'
    BY <1>5, <1>8 DEF SuccessInv, Early
<1>12. InertInv(p)'
    BY <1>3, <1>4, <1>5, <1>6 DEF InertInv
<1>13. ReturnInv(p)'
    BY <1>8 DEF ReturnInv, Done
<1> QED
    BY <1>9, <1>10, <1>11, <1>12, <1>13

-----------------------------------------------------------------------------
(* The lookup and the return.                                              *)

LEMMA WrapperTable ==
    ASSUME NEW w \in DOMAIN Wrappers
    PROVE  /\ Wrappers[w].override = "always" <=> w \in {"Wrap0R", "Wrap0RE"}
           /\ Wrappers[w].override = "skipped" <=> w = "Wrap1R"
           /\ Wrappers[w].contextError => w = "Wrap0RE"
<1>1. w \in {"Wrap0", "Wrap0R", "Wrap0RE", "Wrap1", "Wrap1R", "Wrap1RE", "Wrap1E",
             "Wrap2", "Wrap2R", "Wrap2RE", "Wrap2E", "Wrap3RE"}
    BY DEF Wrappers
<1>2. CASE w = "Wrap1R"
    <2>1. Wrap1R.override = "skipped" /\ ~Wrap1R.contextError
        BY DEF Wrap1R, Closure
    <2> QED
        BY <1>2, <2>1 DEF Wrappers
<1>3. CASE w \in {"Wrap0", "Wrap1", "Wrap2"}
    BY <1>3 DEF Wrappers, Wrap0, Wrap1, Wrap2, Closure
<1>4. CASE w \in {"Wrap1RE", "Wrap2RE", "Wrap3RE"}
    BY <1>4 DEF Wrappers, Wrap1RE, Wrap2RE, Wrap3RE, Closure
<1>5. CASE w \in {"Wrap1E", "Wrap2E", "Wrap2R"}
    BY <1>5 DEF Wrappers, Wrap1E, Wrap2E, Wrap2R, Closure
<1>6. CASE w \in {"Wrap0R", "Wrap0RE"}
    <2>1. Wrap0R.override = "always" /\ Wrap0RE.override = "always" /\ ~Wrap0R.contextError
        BY DEF Wrap0R, Wrap0RE, Closure
    <2> QED
        BY <1>6, <2>1 DEF Wrappers
<1> QED
    BY <1>1, <1>2, <1>3, <1>4, <1>5, <1>6

LEMMA EpilogueOutcome ==
    ASSUME TypeOK, NEW p \in Calls, CallInv(p), OutcomeInv(p), Epilogue(p)
    PROVE  OutcomeInv(p)'
<1>1. /\ pc[p] = "epilogue" /\ pc'[p] = "done"
      /\ UNCHANGED <<reg, frame, fixed, history>> /\ Quiet(p)
      /\ ret'[p] = CASE exit[p].kind # "return" ->
                          Answer(exit[p], Zero, Nil)
                     [] exit[p].kind = "return" /\ Override(p) \in ForeignValues
                            /\ ~Wrapper(p).checked ->
                          Answer(Panic("type assertion"), Zero, Nil)
                     [] OTHER ->
                          Answer(exit[p], CallerResult(p), CallerError(p))
    <2>1. UNCHANGED <<reg, frame, fixed, history>>
        BY DEF Epilogue
    <2>2. Quiet(p)
        BY <2>1 DEF Quiet, frame, fixed, history
    <2> QED
        BY <2>1, <2>2 DEF Epilogue, TypeOK, Goto
<1>2. wrapper[p] \in DOMAIN Wrappers
    BY WeaveAssumption DEF TypeOK
<1>3. /\ Wrapper(p).override = "always" <=> wrapper[p] \in {"Wrap0R", "Wrap0RE"}
      /\ Wrapper(p).override = "skipped" <=> wrapper[p] = "Wrap1R"
      /\ Wrapper(p).contextError => wrapper[p] = "Wrap0RE"
    BY <1>2, WrapperTable DEF Wrapper
<1>4. /\ \/ wrapper[p] \in {"Wrap0R", "Wrap0RE"} /\ Override(p) = GetResult(ctx[p], 0)
         \/ wrapper[p] = "Wrap1R" /\ ctx[p].skipped /\ Override(p) = GetResult(ctx[p], 0)
         \/ Override(p) = Nil /\ (wrapper[p] \in {"Wrap0R", "Wrap0RE", "Wrap1R"} =>
                                    wrapper[p] = "Wrap1R" /\ ~ctx[p].skipped)
    BY <1>3 DEF Override
<1>5. /\ ret[p]' \in Returns /\ bare[p] \in Returns
      /\ exit[p].kind = "return" => exit[p].value = Nil
    <2>1. exit[p] = Returned \/ exit[p].kind # "return"
        BY ExitKinds DEF CallInv, ExitInv, FatalRuns
    <2>2. TypeOK'
        BY StepType DEF Step, CallInv
    <2> QED
        BY <2>1, <2>2 DEF TypeOK, Returned
<1>6. /\ ctx'[p] = ctx[p] /\ bare'[p] = bare[p] /\ inert'[p] = inert[p]
      /\ local'[p] = local[p] /\ exit'[p] = exit[p] /\ wrapper'[p] = wrapper[p]
      /\ BodyPanicked(p)' = BodyPanicked(p)
      /\ NothingFatalBefore(p, "AfterReturning")' = NothingFatalBefore(p, "AfterReturning")
      /\ GetResult(ctx[p], 0)' = GetResult(ctx[p], 0)
    BY <1>1 DEF frame, fixed, history, BodyPanicked, NothingFatalBefore, Runs, GetResult
<1>7. ASSUME ret'[p].kind = "return"
      PROVE  /\ ret'[p] = Answer(exit[p], CallerResult(p), CallerError(p))
             /\ ret'[p].result = CallerResult(p) /\ ret'[p].error = CallerError(p)
    <2>1. \A x, r, err : /\ Answer(x, r, err).kind = x.kind
                         /\ Answer(x, r, err).result = r /\ Answer(x, r, err).error = err
        BY DEF Answer
    <2>2. CASE exit[p].kind # "return"
        <3>1. ret'[p] = Answer(exit[p], Zero, Nil)
            BY <1>1, <2>2
        <3> QED
            BY <1>7, <2>1, <2>2, <3>1
    <2>3. CASE exit[p].kind = "return" /\ Override(p) \in ForeignValues /\ ~Wrapper(p).checked
        <3>1. ret'[p] = Answer(Panic("type assertion"), Zero, Nil)
            BY <1>1, <2>3
        <3>2. Answer(Panic("type assertion"), Zero, Nil).kind = "panic"
            BY DEF Answer, Panic
        <3>3. ret'[p].kind = "panic"
            BY <3>1, <3>2
        <3> QED
            BY <1>7, <3>3
    <2>4. CASE exit[p].kind = "return" /\ ~(Override(p) \in ForeignValues /\ ~Wrapper(p).checked)
        <3>1. ret'[p] = Answer(exit[p], CallerResult(p), CallerError(p))
            BY <1>1, <2>4
        <3> QED
            BY <2>1, <3>1
    <2> QED
        BY <2>2, <2>3, <2>4
<1> USE QuietKeeps, <1>1, <1>6 DEF OutcomeInv
<1>8. BareInv(p)'
    BY DEF BareInv
<1>9. PanicInv(p)'
    BY DEF PanicInv, Body, Early
<1>10. SuccessInv(p)'
    BY DEF SuccessInv, Succeeded, Early
<1>11. InertInv(p)'
    BY DEF InertInv, Early
<1>12. ASSUME ret'[p].kind = "return"
       PROVE  KeptAnswer(p)' /\ SkipUsed(p)'
    <2>1. local[p].result = bare[p].result /\ local[p].error = bare[p].error
          /\ bare[p].result \notin ForeignValues
        BY DEF BareInv
    <2>2. KeptAnswer(p)'
        BY <1>3, <1>4, <1>7, <1>12, <2>1 DEF KeptAnswer, CallerResult, CallerError
    <2>3. SkipUsed(p)'
        BY <1>4, <1>7, <1>12 DEF SkipUsed, CallerResult
    <2> QED
        BY <2>2, <2>3
<1>13. ASSUME inert[p]
       PROVE  ret'[p] = bare[p]
    <2>1. TargetRan(p) /\ ~ctx[p].skipped
        BY <1>13 DEF InertInv, Early
    <2>2. /\ exit[p].kind = bare[p].kind /\ exit[p].value = bare[p].value
          /\ GetResult(ctx[p], 0) \in {Nil, bare[p].result}
          /\ ctx[p].error \in {Nil, bare[p].error}
        BY <1>13, <2>1 DEF InertInv
    <2>3. /\ Override(p) \in {Nil, bare[p].result}
          /\ bare[p].result \notin ForeignValues \cup {Nil} /\ Nil \notin ForeignValues
          /\ local[p].result = bare[p].result /\ local[p].error = bare[p].error
        BY <1>4, <2>2, WeaveAssumption DEF BareInv
    <2>4. CallerResult(p) = bare[p].result /\ CallerError(p) = bare[p].error
        BY <2>2, <2>3 DEF CallerResult, CallerError
    <2>5. bare[p] = [kind |-> bare[p].kind, value |-> bare[p].value,
                     result |-> bare[p].result, error |-> bare[p].error]
        BY <1>5 DEF Returns
    <2>6. CASE exit[p].kind = "return"
        BY <2>2, <2>3, <2>4, <2>5, <2>6 DEF Answer
    <2>7. CASE exit[p].kind # "return"
        BY <2>2, <2>5, <2>7 DEF Answer, BareInv
    <2> QED
        BY <2>6, <2>7
<1>14. ReturnInv(p)'
    BY <1>12, <1>13 DEF ReturnInv
<1> QED
    BY <1>8, <1>9, <1>10, <1>11, <1>14

LEMMA InvokeOutcome ==
    ASSUME TypeOK, NEW p \in Calls, CallInv(p), OutcomeInv(p), NEW name \in Names, Invoke(p, name)
    PROVE  OutcomeInv(p)'
<1>1. /\ pc[p] = "idle" /\ pc'[p] \in {"bare", "found"}
      /\ UNCHANGED <<reg, wrapper, ret, frame, history>>
    BY DEF Invoke, TypeOK, Goto
<1>2. /\ \A t : Runs(p, t)' = Runs(p, t)
      /\ TargetRan(p)' = TargetRan(p)
      /\ FatalRuns(p)' = FatalRuns(p)
      /\ NothingFatalBefore(p, "AfterReturning")' = NothingFatalBefore(p, "AfterReturning")
      /\ GetResult(ctx[p], 0)' = GetResult(ctx[p], 0)
    BY <1>1 DEF history, frame, Runs, TargetRan, FatalRuns, NothingFatalBefore, GetResult
<1> USE <1>1, <1>2 DEF OutcomeInv, frame, history
<1>3. BareInv(p)'
    BY DEF BareInv
<1>4. PanicInv(p)'
    BY DEF PanicInv, Body, Early
<1>5. SuccessInv(p)'
    BY DEF SuccessInv, Succeeded, Early
<1>6. InertInv(p)'
    BY DEF InertInv, Early
<1>7. ReturnInv(p)'
    BY DEF ReturnInv, Done
<1> QED
    BY <1>3, <1>4, <1>5, <1>6, <1>7

-----------------------------------------------------------------------------
(* The theorems.                                                           *)

LEMMA InitOutcome == Init => OInv
<1> SUFFICES ASSUME Init, NEW p \in Calls
             PROVE  OutcomeInv(p)
    BY InitInv DEF OInv
<1>1. /\ pc[p] = "idle" /\ ctx[p] = NewContext /\ ran[p] = <<>> /\ exit[p] = Returned
      /\ local[p] = [result |-> Zero, error |-> Nil]
      /\ bare[p] = Answer(Returned, Zero, Nil)
    BY DEF Init
<1>2. FatalRuns(p) = {} /\ \A t : Runs(p, t) = {}
    BY <1>1 DEF FatalRuns, Runs
<1>3. Zero \notin ForeignValues \cup {Nil}
    BY WeaveAssumption DEF Zero, Nil
<1>4. GetResult(NewContext, 0) = Nil /\ NewContext.error = Nil /\ NewContext.skipped = FALSE
    BY DEF GetResult, NewContext
<1> USE <1>1, <1>2 DEF TargetRan
<1>5. BareInv(p)
    BY <1>3 DEF BareInv, Answer, Returned
<1>6. PanicInv(p) /\ SuccessInv(p)
    BY DEF PanicInv, SuccessInv, NothingFatalBefore
<1>7. InertInv(p) /\ ReturnInv(p)
    BY <1>4 DEF InertInv, ReturnInv, Done, Early
<1> QED
    BY <1>5, <1>6, <1>7 DEF OutcomeInv

LEMMA StepOutcome ==
    ASSUME TypeOK, NEW p \in Calls, CallInv(p), CallInv(p)', OutcomeInv(p), Step(p)
    PROVE  OutcomeInv(p)'
<1>1. CASE StartBefore(p) \/ FinishBefore(p) \/ FinishAround(p) \/ Complete(p) \/ Recover(p)
              \/ StartAfter(p) \/ FinishList(p)
    BY <1>1, QuietSteps, StillKeeps
<1>2. CASE HandlerReturns(p) \/ HandlerFails(p) \/ HandlerRaises(p) \/ HandlerExits(p)
    BY <1>2, HandlerSteps, HandlesKeeps
<1>3. CASE TargetReturns(p)
    BY <1>3, TargetReturnsOutcome
<1>4. CASE TargetPanics(p)
    BY <1>4, TargetThrowsOutcome DEF TargetPanics
<1>5. CASE TargetExits(p)
    BY <1>5, TargetThrowsOutcome DEF TargetExits
<1>6. CASE Epilogue(p)
    BY <1>6, EpilogueOutcome
<1> QED
    BY <1>1, <1>2, <1>3, <1>4, <1>5, <1>6 DEF Step

LEMMA NextOutcome == OInv /\ [Next]_vars => OInv'
<1> SUFFICES ASSUME OInv, [Next]_vars
             PROVE  OInv'
    OBVIOUS
<1>1. IInv /\ IInv'
    BY NextInv DEF OInv
<1>2. TypeOK /\ \A q \in Calls : CallInv(q) /\ CallInv(q)' /\ OutcomeInv(q)
    BY <1>1 DEF OInv, IInv
<1>3. ASSUME NEW p \in Calls, Step(p) \/ \E name \in Names : Invoke(p, name), NEW q \in Calls
      PROVE  OutcomeInv(q)'
    <2>1. CASE q = p
        BY <1>2, <1>3, <2>1, StepOutcome, InvokeOutcome
    <2>2. CASE q # p
        BY <1>2, <1>3, <2>2, OthersApart, ApartKept
    <2> QED
        BY <2>1, <2>2
<1>4. ASSUME Environment \/ UNCHANGED vars, NEW q \in Calls
      PROVE  OutcomeInv(q)'
    BY <1>2, <1>4, EnvironmentApart, ApartKept
<1> QED
    BY <1>1, <1>3, <1>4 DEF OInv, Next

LEMMA OutcomeInvariance == Spec => []OInv
BY InitOutcome, NextOutcome, PTL DEF Spec

\* AfterThrowing advice goes with the panics of the body and with nothing else:
\* recover() does not take a Goexit or a dropped error for a panic, nor a panic of
\* later advice for one of the body.
THEOREM ThrowingGoesWithPanic == Spec => []ThrowingMatchesPanic
<1>1. OInv => ThrowingMatchesPanic
    BY DEF OInv, OutcomeInv, PanicInv, ThrowingMatchesPanic
<1> QED
    BY <1>1, OutcomeInvariance, PTL

\* AfterReturning advice runs for success only, although the code tells success by
\* a context that every handler can write to.
THEOREM ReturningNeedsSuccess == Spec => []ReturningOnlyOnSuccess
<1>1. OInv => ReturningOnlyOnSuccess
    BY DEF OInv, OutcomeInv, SuccessInv, Succeeded, NothingFatalBefore, ReturningOnlyOnSuccess
<1> QED
    BY <1>1, OutcomeInvariance, PTL

\* Advice that returns nil and leaves the context alone changes nothing for the
\* caller, in any of the twelve wrappers.
THEOREM WeavingIsTransparent == Spec => []Transparency
<1>1. OInv => Transparency
    BY DEF OInv, OutcomeInv, InertInv, ReturnInv, Early, Done, Transparency
<1> QED
    BY <1>1, OutcomeInvariance, PTL

\* Of the answer of a target that ran, handlers can change only what the wrapper
\* takes from the context.
THEOREM AnswersAreKept == Spec => []AnswerKept
<1>1. OInv => AnswerKept
    BY DEF OInv, OutcomeInv, ReturnInv, KeptAnswer, AnswerKept
<1> QED
    BY <1>1, OutcomeInvariance, PTL

\* The result that Around advice stores in place of the target's reaches the
\* callers of the three wrappers that look for it.
THEOREM SkipResultsAreUsed == Spec => []SkipResultUsed
<1>1. OInv => SkipResultUsed
    BY DEF OInv, OutcomeInv, ReturnInv, SkipUsed, SkipResultUsed
<1> QED
    BY <1>1, OutcomeInvariance, PTL

-----------------------------------------------------------------------------
(* Calls whose target did not run.                                         *)

\* Why p does not run its target.
LeftOut(p) ==
    \/ Cut(p, "Before") \/ Cut(p, "Around")
    \/ Runs(p, "Around") # {} /\ RanAll(p, "Around")

LeftOutInv(p) == pc[p] \notin Early => TargetRan(p) \/ LeftOut(p)

LEMMA LeftOutKept ==
    ASSUME NEW q \in Calls, Apart(q), LeftOutInv(q)
    PROVE  LeftOutInv(q)'
<1>1. /\ \A t : Runs(q, t)' = Runs(q, t)
      /\ \A t : RanAll(q, t)' = RanAll(q, t)
      /\ \A t : Cut(q, t)' = Cut(q, t)
      /\ TargetRan(q)' = TargetRan(q)
    BY DEF Apart, Untouched, Runs, RanAll, Cut, TargetRan
<1> QED
    BY <1>1 DEF Apart, Untouched, LeftOutInv, LeftOut

LEMMA StepLeftOut ==
    ASSUME TypeOK, NEW p \in Calls, CallInv(p), OutcomeInv(p), LeftOutInv(p), Step(p)
    PROVE  LeftOutInv(p)'
<1>1. CASE StartBefore(p) \/ FinishBefore(p) \/ FinishAround(p) \/ Complete(p) \/ Recover(p)
              \/ StartAfter(p) \/ FinishList(p)
    <2>1. Still(p) /\ Moves(p)
        BY <1>1, QuietSteps
    <2>2. /\ \A t : Runs(p, t)' = Runs(p, t)
          /\ \A t : RanAll(p, t)' = RanAll(p, t)
          /\ \A t : Cut(p, t)' = Cut(p, t)
          /\ TargetRan(p)' = TargetRan(p)
        BY <2>1, QuietKeeps DEF Still
    <2>3. CASE pc[p] = "Around" /\ todo[p] = <<>>
        <3>1. RanAll(p, "Around") /\ Runs(p, "Around") # {}
            BY <2>3, ListDone DEF CallInv, AdviceTypes, OutcomeInv, SuccessInv
        <3> QED
            BY <2>2, <3>1 DEF LeftOutInv, LeftOut
    <2>4. CASE ~(pc[p] = "Around" /\ todo[p] = <<>>)
        <3>1. pc[p] \in Early => pc'[p] \in Early
            BY <2>1, <2>4 DEF Moves, Early
        <3> QED
            BY <2>2, <3>1 DEF LeftOutInv, LeftOut
    <2> QED
        BY <2>3, <2>4
<1>2. CASE HandlerReturns(p) \/ HandlerFails(p) \/ HandlerRaises(p) \/ HandlerExits(p)
    <2>1. PICK e : Handles(p, e)
        BY <1>2, HandlerSteps
    <2>2. /\ \A t : RanAll(p, t) => RanAll(p, t)'
          /\ \A t : Cut(p, t)' <=> (Cut(p, t) \/ (t = e.type /\ e.outcome # "ok"))
          /\ \A t : Runs(p, t)' = {} <=> Runs(p, t) = {} /\ t # e.type
          /\ TargetRan(p)' <=> TargetRan(p) \/ e.type = "target"
        BY <2>1, AddsRecord, AddsOutcome DEF Handles
    <2>3. LeftOut(p) => LeftOut(p)'
        BY <2>2 DEF LeftOut
    <2>4. CASE pc[p] \in Early
        <3>1. pc[p] \in {"Before", "Around"}
            BY <2>1, <2>4 DEF Handles, Early, AdviceTypes
        <3>2. CASE e.outcome = "ok"
            BY <2>1, <2>4, <3>2 DEF Handles, LeftOutInv
        <3>3. CASE e.outcome # "ok"
            BY <2>1, <2>2, <3>1, <3>3 DEF Handles, LeftOutInv, LeftOut
        <3> QED
            BY <3>2, <3>3
    <2>5. CASE pc[p] \notin Early
        BY <2>2, <2>3, <2>5 DEF LeftOutInv
    <2> QED
        BY <2>4, <2>5
<1>3. ASSUME NEW kind \in {"return", "panic", "goexit"}, NEW answer, RunTarget(p, kind, answer)
      PROVE  LeftOutInv(p)'
    <2>1. PICK e : Adds(p, e) /\ e.type = "target"
        BY <1>3, TargetAdds
    <2>2. TargetRan(p)'
        BY <2>1, AddsOutcome
    <2> QED
        BY <2>2 DEF LeftOutInv
<1>4. CASE TargetReturns(p) \/ TargetPanics(p) \/ TargetExits(p)
    BY <1>3, <1>4 DEF TargetReturns, TargetPanics, TargetExits, TargetThrows
<1>5. CASE Epilogue(p)
    <2>1. pc[p] = "epilogue" /\ UNCHANGED <<ran, atLookup>>
        BY <1>5 DEF Epilogue, fixed, history
    <2> QED
        BY <2>1 DEF LeftOutInv, LeftOut, Early, TargetRan, Runs, RanAll, Cut
<1> QED
    BY <1>1, <1>2, <1>4, <1>5 DEF Step

\* Only Around advice that has run, or a failure before the target, leaves it out.
THEOREM NothingElseLeavesOut == Spec => []TargetLeftOut
<1> DEFINE Inv == \A p \in Calls : LeftOutInv(p)
<1>1. Init => Inv
    BY DEF Init, LeftOutInv, Early
<1>2. OInv /\ Inv /\ [Next]_vars => Inv'
    <2> SUFFICES ASSUME OInv, Inv, [Next]_vars, NEW q \in Calls
                 PROVE  LeftOutInv(q)'
        OBVIOUS
    <2>1. TypeOK /\ CallInv(q) /\ OutcomeInv(q) /\ LeftOutInv(q)
        BY DEF OInv, IInv
    <2>2. ASSUME NEW p \in Calls, Step(p) \/ \E name \in Names : Invoke(p, name)
          PROVE  LeftOutInv(q)'
        <3>1. CASE q # p
            BY <2>1, <2>2, <3>1, OthersApart, LeftOutKept
        <3>2. CASE q = p /\ Step(p)
            BY <2>1, <3>2, StepLeftOut
        <3>3. CASE q = p /\ \E name \in Names : Invoke(p, name)
            BY <2>1, <3>3 DEF Invoke, Goto, TypeOK, LeftOutInv, Early
        <3> QED
            BY <2>2, <3>1, <3>2, <3>3
    <2>3. CASE Environment \/ UNCHANGED vars
        BY <2>1, <2>3, EnvironmentApart, LeftOutKept
    <2> QED
        BY <2>2, <2>3 DEF Next
<1>3. Inv => TargetLeftOut
    BY DEF LeftOutInv, LeftOut, Early, Done, TargetLeftOut
<1> QED
    BY <1>1, <1>2, <1>3, OutcomeInvariance, PTL DEF Spec

-----------------------------------------------------------------------------
(* Weave implements WrappedCall.                                           *)

\* What a step leaves as it was, seen from outside.
LEMMA SameSeen ==
    ASSUME NEW q \in Calls, pc'[q] = pc[q], ran'[q] = ran[q], bare'[q] = bare[q],
           inert'[q] = inert[q], ret'[q] = ret[q]
    PROVE  /\ Status'[q] = Status[q] /\ Effect'[q] = Effect[q]
           /\ Meddled'[q] = Meddled[q] /\ Given'[q] = Given[q]
BY DEF Status, Effect, Meddled, Given, TargetRan, Runs, Done

LEMMA ApartSeen ==
    ASSUME NEW q \in Calls, Apart(q)
    PROVE  /\ Status'[q] = Status[q] /\ Effect'[q] = Effect[q]
           /\ Meddled'[q] = Meddled[q] /\ Given'[q] = Given[q]
BY SameSeen DEF Apart, Untouched

\* A step of p that changes what is seen of p alone.
LEMMA OnlySeen ==
    ASSUME NEW p \in Calls, \A q \in Calls : q # p => Apart(q),
           NEW s, NEW e, NEW m, NEW g,
           Status'[p] = s, Effect'[p] = e, Meddled'[p] = m, Given'[p] = g
    PROVE  /\ Status' = [Status EXCEPT ![p] = s]
           /\ Effect' = [Effect EXCEPT ![p] = e]
           /\ Meddled' = [Meddled EXCEPT ![p] = m]
           /\ Given' = [Given EXCEPT ![p] = g]
<1>1. \A q \in Calls : q # p =>
          /\ Status'[q] = Status[q] /\ Effect'[q] = Effect[q]
          /\ Meddled'[q] = Meddled[q] /\ Given'[q] = Given[q]
    BY ApartSeen
<1>2. \A f \in {Status, Effect, Meddled, Given, Status', Effect', Meddled', Given'} :
          f = [q \in Calls |-> f[q]]
    BY DEF Status, Effect, Meddled, Given
<1> QED
    BY <1>1, <1>2

\* Nothing that is seen of p changes.
LEMMA StepUnseen ==
    ASSUME NEW p \in Calls, \A q \in Calls : q # p => Apart(q),
           Status'[p] = Status[p], Effect'[p] = Effect[p],
           Meddled'[p] = Meddled[p], Given'[p] = Given[p]
    PROVE  UNCHANGED Abstract!vars
<1>1. \A q \in Calls :
          /\ Status'[q] = Status[q] /\ Effect'[q] = Effect[q]
          /\ Meddled'[q] = Meddled[q] /\ Given'[q] = Given[q]
    BY ApartSeen
<1>2. Status' = Status /\ Effect' = Effect /\ Meddled' = Meddled /\ Given' = Given
    BY <1>1 DEF Status, Effect, Meddled, Given
<1> QED
    BY <1>2 DEF Abstract!vars

LEMMA StepImplements ==
    ASSUME OInv, OInv', NEW p \in Calls, Step(p)
    PROVE  Abstract!Next \/ UNCHANGED Abstract!vars
<1>1. /\ TypeOK /\ TypeOK' /\ CallInv(p) /\ OutcomeInv(p) /\ OutcomeInv(p)'
      /\ \A q \in Calls : q # p => Apart(q)
    BY OthersApart DEF OInv, IInv
<1>2. CASE StartBefore(p) \/ FinishBefore(p) \/ FinishAround(p) \/ Complete(p) \/ Recover(p)
              \/ StartAfter(p) \/ FinishList(p)
    <2>1. Still(p) /\ Moves(p)
        BY <1>1, <1>2, QuietSteps
    <2>2. /\ pc[p] \notin {"idle", "done"} /\ pc'[p] \notin {"idle", "done"}
          /\ ran'[p] = ran[p] /\ bare'[p] = bare[p] /\ inert'[p] = inert[p]
        BY <2>1 DEF Moves, Still, Quiet
    <2>3. /\ Status'[p] = Status[p] /\ Effect'[p] = Effect[p]
          /\ Meddled'[p] = Meddled[p] /\ Given'[p] = Given[p]
        BY <2>2 DEF Status, Effect, Meddled, Given, TargetRan, Runs, Done
    <2> QED
        BY <1>1, <2>3, StepUnseen
<1>3. CASE HandlerReturns(p) \/ HandlerFails(p) \/ HandlerRaises(p) \/ HandlerExits(p)
    <2>1. PICK e : Handles(p, e)
        BY <1>1, <1>3, HandlerSteps
    <2>2. /\ pc[p] \notin {"idle", "done"} /\ pc'[p] \notin {"idle", "done"}
          /\ TargetRan(p)' = TargetRan(p) /\ bare'[p] = bare[p]
          /\ inert[p] \in BOOLEAN /\ inert'[p] \in BOOLEAN /\ (inert'[p] => inert[p])
        BY <1>1, <2>1, AddsRecord DEF Handles, AdviceTypes, Unwind, TypeOK
    <2>3. /\ Status[p] = "called" /\ Status'[p] = "called" /\ Effect'[p] = Effect[p]
          /\ Given'[p] = Given[p] /\ Meddled[p] = ~inert[p] /\ Meddled'[p] = ~inert'[p]
        BY <2>2 DEF Status, Effect, Meddled, Given, Done
    <2>4. CASE inert'[p] = inert[p]
        BY <1>1, <2>3, <2>4, StepUnseen
    <2>5. CASE inert'[p] # inert[p]
        <3>1. Meddled'[p] = TRUE
            BY <2>2, <2>3, <2>5
        <3>2. /\ Status' = Status /\ Effect' = Effect /\ Given' = Given
              /\ Meddled' = [Meddled EXCEPT ![p] = TRUE]
            <4>1. /\ Status' = [Status EXCEPT ![p] = Status[p]]
                  /\ Effect' = [Effect EXCEPT ![p] = Effect[p]]
                  /\ Meddled' = [Meddled EXCEPT ![p] = TRUE]
                  /\ Given' = [Given EXCEPT ![p] = Given[p]]
                BY <1>1, <2>3, <3>1, OnlySeen
            <4> QED
                BY <4>1 DEF Status, Effect, Given
        <3>3. Abstract!Meddle(p)
            BY <2>3, <3>2 DEF Abstract!Meddle
        <3> QED
            BY <3>3 DEF Abstract!Next
    <2> QED
        BY <2>4, <2>5
<1>4. CASE TargetReturns(p) \/ TargetPanics(p) \/ TargetExits(p)
    <2>1. PICK kind, answer :
              kind \in {"return", "panic", "goexit"} /\ RunTarget(p, kind, answer)
        BY <1>4 DEF TargetReturns, TargetPanics, TargetExits, TargetThrows
    <2>2. PICK e : Adds(p, e) /\ e.type = "target"
        BY <1>1, <2>1, TargetAdds
    <2>3. pc[p] \in {"target", "bare"} /\ pc'[p] \in {"completed", "epilogue", "recover"}
        BY <1>1, <1>4, <2>1
        DEF RunTarget, TargetReturns, TargetPanics, TargetExits, TargetThrows, Goto, Unwind, TypeOK
    <2>4. ~TargetRan(p) /\ TargetRan(p)'
        <3>1. TargetRan(p)'
            BY <1>1, <2>2, AddsOutcome
        <3>2. pc[p] = "bare" => ~TargetRan(p)
            BY <1>1 DEF CallInv, FreshInv, NothingRun, TargetRan, Runs
        <3> QED
            BY <1>1, <2>3, <3>1, <3>2 DEF CallInv, FreshInv, NotYetTarget
    <2>5. /\ inert'[p] = inert[p] /\ bare'[p] \in Returns
        BY <1>1, <2>1 DEF RunTarget, TypeOK
    <2>6. /\ Status[p] = "called" /\ Status'[p] = "called"
          /\ Effect[p] = NoAnswer /\ Effect'[p] = bare'[p]
          /\ Meddled'[p] = Meddled[p] /\ Given'[p] = Given[p]
        BY <2>3, <2>4, <2>5 DEF Status, Effect, Meddled, Given, Done
    <2>7. /\ Status' = Status /\ Meddled' = Meddled /\ Given' = Given
          /\ Effect' = [Effect EXCEPT ![p] = Effect'[p]]
        <3>1. /\ Status' = [Status EXCEPT ![p] = Status[p]]
              /\ Effect' = [Effect EXCEPT ![p] = Effect'[p]]
              /\ Meddled' = [Meddled EXCEPT ![p] = Meddled[p]]
              /\ Given' = [Given EXCEPT ![p] = Given[p]]
            BY <1>1, <2>6, OnlySeen
        <3> QED
            BY <3>1 DEF Status, Meddled, Given
    <2>8. Abstract!TakeEffect(p)
        BY <2>5, <2>6, <2>7 DEF Abstract!TakeEffect
    <2> QED
        BY <2>8 DEF Abstract!Next
<1>5. CASE Epilogue(p)
    <2>1. /\ pc[p] = "epilogue" /\ pc'[p] = "done"
          /\ ran' = ran /\ inert' = inert /\ bare' = bare
        BY <1>1, <1>5 DEF Epilogue, Goto, TypeOK, history
    <2>2. ret'[p] \in Returns /\ (inert[p] => TargetRan(p) /\ ret'[p] = bare[p])
        BY <1>1, <2>1 DEF TypeOK, OutcomeInv, InertInv, ReturnInv, Early, Done
    <2>3. TargetRan(p)' = TargetRan(p)
        BY <2>1 DEF TargetRan, Runs
    <2>4. /\ Status[p] = "called" /\ Status'[p] = "returned"
          /\ Effect'[p] = Effect[p] /\ Meddled'[p] = Meddled[p]
          /\ Given'[p] = ret'[p]
          /\ Given'[p] \in Returns /\ (Given'[p] = Effect[p] \/ Meddled[p])
        BY <2>1, <2>2, <2>3 DEF Status, Effect, Meddled, Given, Done
    <2>5. /\ Status' = [Status EXCEPT ![p] = "returned"]
          /\ Effect' = Effect /\ Meddled' = Meddled
          /\ Given' = [Given EXCEPT ![p] = Given'[p]]
        <3>1. /\ Status' = [Status EXCEPT ![p] = "returned"]
              /\ Effect' = [Effect EXCEPT ![p] = Effect[p]]
              /\ Meddled' = [Meddled EXCEPT ![p] = Meddled[p]]
              /\ Given' = [Given EXCEPT ![p] = Given'[p]]
            BY <1>1, <2>4, OnlySeen
        <3> QED
            BY <3>1 DEF Effect, Meddled
    <2>6. Abstract!Return(p)
        BY <2>4, <2>5 DEF Abstract!Return
    <2> QED
        BY <2>6 DEF Abstract!Next
<1> QED
    BY <1>2, <1>3, <1>4, <1>5 DEF Step

LEMMA InvokeImplements ==
    ASSUME OInv, NEW p \in Calls, NEW name \in Names, Invoke(p, name)
    PROVE  Abstract!Next
<1>1. TypeOK /\ CallInv(p) /\ \A q \in Calls : q # p => Apart(q)
    BY OthersApart DEF OInv, IInv
<1>2. /\ pc[p] = "idle" /\ pc'[p] \in {"bare", "found"}
      /\ ran' = ran /\ bare' = bare /\ inert' = inert
    BY <1>1 DEF Invoke, TypeOK, Goto, history
<1>3. /\ Status[p] = "idle" /\ Status'[p] = "called" /\ Effect'[p] = Effect[p]
      /\ Meddled'[p] = Meddled[p] /\ Given'[p] = Given[p]
    BY <1>2 DEF Status, Effect, Meddled, Given, Done, TargetRan, Runs
<1>4. /\ Status' = [Status EXCEPT ![p] = "called"]
      /\ Effect' = Effect /\ Meddled' = Meddled /\ Given' = Given
    <2>1. /\ Status' = [Status EXCEPT ![p] = "called"]
          /\ Effect' = [Effect EXCEPT ![p] = Effect[p]]
          /\ Meddled' = [Meddled EXCEPT ![p] = Meddled[p]]
          /\ Given' = [Given EXCEPT ![p] = Given[p]]
        BY <1>1, <1>3, OnlySeen
    <2> QED
        BY <2>1 DEF Effect, Meddled, Given
<1>5. Abstract!Begin(p)
    BY <1>3, <1>4 DEF Abstract!Begin
<1> QED
    BY <1>5 DEF Abstract!Next

\* A woven call is, to its caller, a call of the target: the target takes effect
\* once at most and before the caller goes on, and the caller gets its answer
\* unless advice has failed or has written to the context.
THEOREM WeaveImplementsWrappedCall == Spec => ImplementsWrappedCall
<1>1. Init => Abstract!Init
    <2> SUFFICES ASSUME Init PROVE Abstract!Init
        OBVIOUS
    <2>1. \A p \in Calls : pc[p] = "idle" /\ ~TargetRan(p) /\ inert[p] = TRUE
        BY DEF Init, TargetRan, Runs
    <2> QED
        BY <2>1 DEF Abstract!Init, Status, Effect, Meddled, Given, Done
<1>2. OInv /\ OInv' /\ [Next]_vars => [Abstract!Next]_Abstract!vars
    <2> SUFFICES ASSUME OInv, OInv', [Next]_vars PROVE [Abstract!Next]_Abstract!vars
        OBVIOUS
    <2>1. ASSUME NEW p \in Calls, Step(p)
          PROVE  Abstract!Next \/ UNCHANGED Abstract!vars
        BY <2>1, StepImplements
    <2>2. ASSUME NEW p \in Calls, NEW name \in Names, Invoke(p, name)
          PROVE  Abstract!Next
        BY <2>2, InvokeImplements
    <2>3. CASE Environment \/ UNCHANGED vars
        <3>1. \A q \in Calls : Apart(q)
            BY <2>3, EnvironmentApart DEF OInv, IInv
        <3>2. Status' = Status /\ Effect' = Effect /\ Meddled' = Meddled /\ Given' = Given
            BY <3>1, ApartSeen DEF Status, Effect, Meddled, Given
        <3> QED
            BY <3>2 DEF Abstract!vars
    <2> QED
        BY <2>1, <2>2, <2>3 DEF Next
<1> QED
    BY OutcomeInvariance, <1>1, <1>2, PTL DEF Spec, ImplementsWrappedCall, Abstract!Spec

-----------------------------------------------------------------------------
(* The order of advice.                                                    *)

\* The last type, by rank, that a call in that place can have run.
Reached(place) ==
    CASE place \in {"idle", "bare", "found"}     -> 0
      [] place = "Before"                        -> 1
      [] place \in {"Around", "target"}          -> 2
      [] place = "completed"                     -> 3
      [] place \in {"AfterReturning", "recover"} -> 4
      [] place \in {"AfterThrowing", "cleanup"}  -> 5
      [] OTHER                                   -> 6

InOrder(a, b) ==
    \/ Rank[a.type] < Rank[b.type]
    \/ /\ a.type = b.type /\ a.type # "target"
       /\ a.priority >= b.priority /\ a.id # b.id
       /\ a.outcome = "ok"

\* What is left of a list comes after what has run of it: ids that a list tells apart
\* and priorities that descend are cut in two.
OrderInv(p) ==
    /\ \A i, j \in DOMAIN ran[p] : i < j => InOrder(ran[p][i], ran[p][j])
    /\ \A i \in DOMAIN ran[p] : Rank[ran[p][i].type] <= Reached(pc[p])
    /\ Descending(todo[p])
    /\ \A i, j \in DOMAIN todo[p] : todo[p][i].id = todo[p][j].id => i = j
    /\ pc[p] \in AdviceTypes =>
          \A i \in Runs(p, pc[p]), m \in DOMAIN todo[p] :
              /\ ran[p][i].outcome = "ok"
              /\ ran[p][i].priority >= todo[p][m].priority
              /\ ran[p][i].id # todo[p][m].id

\* No chain gets the same advice twice.
ChainsApart ==
    \A c \in DOMAIN reg.chains : \A t \in AdviceTypes : ToldApart(reg.chains[c][t])

SInv == IInv /\ ChainsApart /\ \A p \in Calls : OrderInv(p)

-----------------------------------------------------------------------------
(* The chains.                                                             *)

\* Advice that is in no chain yet is added to one.
LEMMA AttachedApart ==
    ASSUME TypeOK, ChainsApart, NEW i \in 1..Len(reg.chains), NEW a \in Advices,
           Unattached(a), reg' = AddTo(reg, i, a)
    PROVE  ChainsApart'
<1>1. /\ reg.chains \in Seq(AdviceChain) /\ DOMAIN reg.chains = 1..Len(reg.chains)
      /\ a \in Advice /\ reg.chains[i] \in AdviceChain
    BY WeaveAssumption DEF TypeOK, RegistryRecord
<1>2. reg'.chains = [reg.chains EXCEPT ![i] = Add(reg.chains[i], a)]
    BY <1>1 DEF AddTo, TypeOK, RegistryRecord
<1>3. /\ DOMAIN reg'.chains = DOMAIN reg.chains
      /\ \A c \in DOMAIN reg.chains :
            reg'.chains[c] = IF c = i THEN Add(reg.chains[i], a) ELSE reg.chains[c]
    BY <1>1, <1>2
<1> DEFINE old == reg.chains[i]
<1>4. ASSUME NEW t \in AdviceTypes
      PROVE  ToldApart(Add(old, a)[t])
    <2>1. old[t] \in Seq(Advice) /\ ToldApart(old[t]) /\ a \notin Range(old[t])
        BY <1>1 DEF AdviceChain, ChainsApart, Unattached
    <2>2. Add(old, a)[t] = IF a.type = t THEN Append(old[t], a) ELSE old[t]
        BY <1>1 DEF Add, AdviceChain
    <2> DEFINE list == old[t]
               more == Append(list, a)
               n == Len(list) + 1
    <2>3. /\ DOMAIN list = 1..Len(list) /\ DOMAIN more = DOMAIN list \cup {n}
          /\ n \notin DOMAIN list /\ more[n] = a
          /\ \A j \in DOMAIN list : more[j] = list[j]
        BY <2>1
    <2>4. \A j \in DOMAIN list : list[j].id # a.id
        BY <2>1 DEF ToldApart, Range
    <2>5. ToldApart(more)
        <3> HIDE DEF list, more, n
        <3>1. ToldApart(list)
            BY <2>1 DEF list
        <3> QED
            BY <2>3, <2>4, <3>1, IdsAssumption DEF ToldApart
    <2> QED
        BY <2>1, <2>2, <2>5
<1> QED
    BY <1>3, <1>4 DEF ChainsApart

LEMMA EnvironmentToldApart ==
    ASSUME TypeOK, ChainsApart, Environment
    PROVE  ChainsApart'
<1>1. reg \in RegistryRecord /\ DOMAIN reg.chains = 1..Len(reg.chains) /\ Len(reg.chains) \in Nat
    BY DEF TypeOK, RegistryRecord
<1>2. \A name \in Names : Lookup(reg, name) \in 0..Len(reg.chains)
    BY <1>1 DEF RegistryRecord, Lookup
<1>3. ASSUME NEW name \in Names, RegisterName(name)
      PROVE  ChainsApart'
    <2>1. reg' \in {reg, WithNewChain(reg, name)}
        BY <1>3 DEF RegisterName, Register, Result
    <2>2. CASE reg' = WithNewChain(reg, name)
        <3>1. /\ DOMAIN reg'.chains = DOMAIN reg.chains \cup {Len(reg.chains) + 1}
              /\ \A c \in DOMAIN reg.chains : reg'.chains[c] = reg.chains[c]
              /\ reg'.chains[Len(reg.chains) + 1] = NewAdviceChain
            BY <1>1, <2>2 DEF WithNewChain, RegistryRecord
        <3>2. \A t \in AdviceTypes : ToldApart(NewAdviceChain[t])
            BY DEF NewAdviceChain, ToldApart
        <3> QED
            BY <3>1, <3>2 DEF ChainsApart
    <2> QED
        BY <2>1, <2>2 DEF ChainsApart
<1>4. ASSUME NEW name \in Names, NEW a \in Advices, AttachAdvice(name, a)
      PROVE  ChainsApart'
    <2>1. \/ reg' = reg
          \/ reg' = AddTo(reg, Lookup(reg, name), a) /\ Lookup(reg, name) # NoChain
        BY <1>4 DEF AttachAdvice, AddAdvice, Result
    <2>2. Lookup(reg, name) # NoChain => Lookup(reg, name) \in 1..Len(reg.chains)
        BY <1>1, <1>2 DEF NoChain
    <2>3. Unattached(a)
        BY <1>4 DEF AttachAdvice
    <2> QED
        BY <2>1, <2>2, <2>3, AttachedApart DEF ChainsApart
<1>5. ASSUME NEW i \in DOMAIN reg.chains, NEW a \in Advices, AttachThroughPointer(i, a)
      PROVE  ChainsApart'
    BY <1>1, <1>5, AttachedApart DEF AttachThroughPointer
<1>6. ASSUME reg'.chains = reg.chains
      PROVE  ChainsApart'
    BY <1>6 DEF ChainsApart
<1>7. ASSUME NEW name \in Names, UnregisterName(name)
      PROVE  reg'.chains = reg.chains
    BY <1>1, <1>7 DEF UnregisterName, Unregister, Result, RegistryRecord
<1>8. ASSUME ClearRegistry
      PROVE  reg'.chains = reg.chains
    BY <1>1, <1>8 DEF ClearRegistry, Clear, Result, RegistryRecord
<1>9. ASSUME NEW entries \in [Names -> 0..Len(reg.chains)], SetGlobalRegistry(entries)
      PROVE  reg'.chains = reg.chains
    BY <1>1, <1>9 DEF SetGlobalRegistry, RegistryRecord
<1> QED
    BY <1>3, <1>4, <1>5, <1>6, <1>7, <1>8, <1>9 DEF Environment

\* A sorted copy of a list that tells its advice apart does so as well.
LEMMA CopyApart ==
    ASSUME NEW list \in Seq(Advice), ToldApart(list), NEW copy \in SortedCopies(list)
    PROVE  /\ Descending(copy)
           /\ \A i, j \in DOMAIN copy : copy[i].id = copy[j].id => i = j
<1> DEFINE n == Len(list)
<1>1. n \in Nat /\ DOMAIN list = 1..n
    OBVIOUS
<1>2. PICK f \in Bijection(1..n, 1..n) : copy = [i \in 1..n |-> list[f[i]]]
    BY DEF SortedCopies
<1> HIDE DEF n
<1>3. f \in [1..n -> 1..n] /\ \A i, j \in 1..n : f[i] = f[j] => i = j
    BY <1>2 DEF Bijection, Injection, IsInjective
<1>4. \A i, j \in DOMAIN copy : copy[i].id = copy[j].id => i = j
    BY <1>1, <1>2, <1>3 DEF ToldApart
<1> QED
    BY <1>4 DEF SortedCopies

-----------------------------------------------------------------------------
(* The steps of a call.                                                    *)

LEMMA Ranks == \A type \in Phases : Rank[type] \in 1..6
BY DEF Phases, AdviceTypes, Rank

LEMMA RunRanks ==
    ASSUME TypeOK, NEW p \in Calls
    PROVE  \A i \in DOMAIN ran[p] :
              ran[p][i].type \in Phases /\ Rank[ran[p][i].type] \in Int
<1>1. ran[p] \in Seq(RunRecord)
    BY DEF TypeOK
<1>2. \A i \in DOMAIN ran[p] : ran[p][i] \in RunRecord
    BY <1>1
<1>3. \A e \in RunRecord : e.type \in Phases
    BY DEF RunRecord
<1> QED
    BY <1>2, <1>3, Ranks

\* p moves on without starting a list.
LEMMA MoveOrdered ==
    ASSUME NEW p \in Calls, OrderInv(p), ran'[p] = ran[p], pc'[p] \notin AdviceTypes,
           Reached(pc[p]) <= Reached(pc'[p]), todo'[p] \in {todo[p], <<>>}, TypeOK, TypeOK'
    PROVE  OrderInv(p)'
<1>1. \A i \in DOMAIN ran[p] : Rank[ran[p][i].type] \in Int
    BY RunRanks
<1>2. Reached(pc[p]) \in Int /\ Reached(pc'[p]) \in Int
    BY DEF Reached
<1>3. Descending(todo'[p]) /\ \A i, j \in DOMAIN todo'[p] : todo'[p][i].id = todo'[p][j].id => i = j
    BY DEF OrderInv, Descending
<1> QED
    BY <1>1, <1>2, <1>3 DEF OrderInv, InOrder

\* p starts a list: nothing of that type has run.
LEMMA LoadOrdered ==
    ASSUME TypeOK, ChainsApart, NEW p \in Calls, OrderInv(p), NEW type \in AdviceTypes,
           Load(p, type), Advised(p), ran' = ran, Reached(pc[p]) < Rank[type]
    PROVE  OrderInv(p)'
<1>1. chain[p] \in 1..Len(reg.chains) /\ reg \in RegistryRecord
    BY DEF TypeOK, Advised, NoChain, RegistryRecord
<1> DEFINE loaded == reg.chains[chain[p]][type]
<1>2. PICK copy \in SortedCopies(loaded) : todo' = [todo EXCEPT ![p] = copy]
    BY DEF Load
<1>3. loaded \in Seq(Advice) /\ ToldApart(loaded)
    <2>1. loaded \in Seq(Advice)
        BY <1>1, <1>2, LoadedType
    <2>2. chain[p] \in DOMAIN reg.chains
        BY <1>1 DEF RegistryRecord
    <2> QED
        BY <2>1, <2>2 DEF ChainsApart
<1>4. Descending(copy) /\ \A i, j \in DOMAIN copy : copy[i].id = copy[j].id => i = j
    BY <1>3, CopyApart
<1> HIDE DEF loaded
<1>5. todo'[p] = copy /\ pc'[p] = type
    BY <1>2 DEF TypeOK, Load, Goto
<1>6. \A i \in DOMAIN ran[p] : Rank[ran[p][i].type] \in Int
    BY RunRanks
<1>7. /\ Reached(pc[p]) \in Int /\ Reached(type) = Rank[type] /\ Rank[type] \in Int
    BY DEF Reached, Rank, AdviceTypes
<1>8. Runs(p, type)' = {}
    BY <1>6, <1>7 DEF Runs, OrderInv
<1> QED
    BY <1>4, <1>5, <1>6, <1>7, <1>8 DEF OrderInv, InOrder

\* What p runs comes after all it has run.
LEMMA AddedLast ==
    ASSUME TypeOK, NEW p \in Calls, OrderInv(p), NEW e, Adds(p, e),
           \A i \in DOMAIN ran[p] : InOrder(ran[p][i], e),
           Rank[e.type] <= Reached(pc'[p]), Reached(pc[p]) <= Reached(pc'[p])
    PROVE  /\ \A i, j \in DOMAIN ran'[p] : i < j => InOrder(ran'[p][i], ran'[p][j])
           /\ \A i \in DOMAIN ran'[p] : Rank[ran'[p][i].type] <= Reached(pc'[p])
           /\ \A t : \A i \in Runs(p, t)' :
                 ran'[p][i] = e \/ (i \in Runs(p, t) /\ ran'[p][i] = ran[p][i])
<1> DEFINE n == Len(ran[p]) + 1
<1>1. ran[p] \in Seq(RunRecord) /\ Len(ran[p]) \in Nat /\ DOMAIN ran[p] = 1..Len(ran[p])
    BY DEF TypeOK
<1>2. ran'[p] = Append(ran[p], e)
    BY DEF Adds, TypeOK
<1>3. /\ DOMAIN ran'[p] = DOMAIN ran[p] \cup {n}
      /\ n \in Nat /\ \A i \in DOMAIN ran[p] : i < n /\ i \in Nat
      /\ \A i \in DOMAIN ran[p] : ran'[p][i] = ran[p][i]
      /\ ran'[p][n] = e
    BY <1>1, <1>2 DEF Adds
<1> HIDE DEF n
<1>4. Reached(pc[p]) \in Int /\ Reached(pc'[p]) \in Int
    BY DEF Reached
<1>5. \A i, j \in DOMAIN ran'[p] : i < j => InOrder(ran'[p][i], ran'[p][j])
    <2> SUFFICES ASSUME NEW i \in DOMAIN ran'[p], NEW j \in DOMAIN ran'[p], i < j
                 PROVE  InOrder(ran'[p][i], ran'[p][j])
        OBVIOUS
    <2>1. i \in DOMAIN ran[p] /\ (j = n \/ j \in DOMAIN ran[p])
        BY <1>3
    <2> QED
        BY <1>3, <2>1 DEF OrderInv
<1>6. \A i \in DOMAIN ran'[p] : Rank[ran'[p][i].type] <= Reached(pc'[p])
    BY <1>3, <1>4, RunRanks DEF OrderInv
<1>7. \A t : \A i \in Runs(p, t)' :
          ran'[p][i] = e \/ (i \in Runs(p, t) /\ ran'[p][i] = ran[p][i])
    BY <1>3 DEF Runs
<1> QED
    BY <1>5, <1>6, <1>7

\* The handler at the head of a list comes after all that has run.
LEMMA HeadInOrder ==
    ASSUME TypeOK, NEW p \in Calls, OrderInv(p), pc[p] \in AdviceTypes, todo[p] # <<>>, NEW e,
           e.type = pc[p], e.id = Head(todo[p]).id, e.priority = Head(todo[p]).priority
    PROVE  \A i \in DOMAIN ran[p] : InOrder(ran[p][i], e)
<1> TAKE i \in DOMAIN ran[p]
<1>1. Reached(pc[p]) = Rank[pc[p]] /\ Rank[pc[p]] \in Int /\ pc[p] # "target"
    BY DEF Reached, Rank, AdviceTypes
<1>2. ran[p][i].type \in Phases /\ Rank[ran[p][i].type] \in Int
      /\ Rank[ran[p][i].type] <= Rank[pc[p]]
    BY <1>1, RunRanks DEF OrderInv
<1>3. Rank[ran[p][i].type] = Rank[pc[p]] => ran[p][i].type = pc[p]
    BY <1>2 DEF Phases, AdviceTypes, Rank
<1>4. 1 \in DOMAIN todo[p] /\ todo[p][1] = Head(todo[p])
    BY ListType
<1>5. CASE ran[p][i].type = pc[p]
    <2>1. i \in Runs(p, pc[p])
        BY <1>5 DEF Runs
    <2> QED
        BY <1>1, <1>4, <1>5, <2>1 DEF OrderInv, InOrder
<1>6. CASE ran[p][i].type # pc[p]
    BY <1>1, <1>2, <1>3, <1>6 DEF InOrder
<1> QED
    BY <1>5, <1>6

LEMMA ReturnOrdered ==
    ASSUME TypeOK, NEW p \in Calls, OrderInv(p), HandlerReturns(p)
    PROVE  OrderInv(p)'
<1>1. Call(p, "ok") /\ todo' = [todo EXCEPT ![p] = Tail(@)] /\ pc' = pc
    BY DEF HandlerReturns
<1>2. PICK e : /\ Adds(p, e) /\ e.type = pc[p] /\ e.outcome = "ok"
               /\ e.id = Head(todo[p]).id /\ e.priority = Head(todo[p]).priority
    BY <1>1, CallAdds
<1>3. pc[p] \in AdviceTypes /\ todo[p] # <<>> /\ todo'[p] = Tail(todo[p])
    BY <1>1, CallType DEF TypeOK
<1>4. Reached(pc[p]) \in Int /\ Rank[e.type] = Reached(pc[p])
    BY <1>2, <1>3 DEF Reached, Rank, AdviceTypes
<1>5. /\ \A i, j \in DOMAIN ran'[p] : i < j => InOrder(ran'[p][i], ran'[p][j])
      /\ \A i \in DOMAIN ran'[p] : Rank[ran'[p][i].type] <= Reached(pc'[p])
      /\ \A i \in Runs(p, pc[p])' :
            ran'[p][i] = e \/ (i \in Runs(p, pc[p]) /\ ran'[p][i] = ran[p][i])
    BY <1>1, <1>2, <1>3, <1>4, HeadInOrder, AddedLast
<1>6. /\ 1 \in DOMAIN todo[p] /\ todo[p][1] = Head(todo[p]) /\ Len(todo[p]) \in Nat
      /\ DOMAIN todo[p] = 1..Len(todo[p])
      /\ DOMAIN todo'[p] = 1..(Len(todo[p]) - 1)
      /\ \A m \in DOMAIN todo'[p] : todo'[p][m] = todo[p][m + 1]
    <2>1. todo[p] \in Seq(Advice)
        BY DEF TypeOK
    <2> QED
        BY <1>3, <2>1
<1>7. \A m \in DOMAIN todo'[p] : m + 1 \in DOMAIN todo[p] /\ m \in Nat /\ 1 < m + 1
    BY <1>6
<1>8. /\ \A i, j \in DOMAIN todo[p] : i < j => todo[p][i].priority >= todo[p][j].priority
      /\ \A i, j \in DOMAIN todo[p] : todo[p][i].id = todo[p][j].id => i = j
    BY DEF OrderInv, Descending
<1> DEFINE old == todo[p]
           new == todo'[p]
<1> HIDE DEF old, new
<1>9. Descending(new)
    <2> SUFFICES ASSUME NEW i \in DOMAIN new, NEW j \in DOMAIN new, i < j
                 PROVE  new[i].priority >= new[j].priority
        BY DEF Descending
    <2>1. i + 1 \in DOMAIN old /\ j + 1 \in DOMAIN old /\ i + 1 < j + 1
          /\ new[i] = old[i + 1] /\ new[j] = old[j + 1]
        BY <1>6, <1>7 DEF old, new
    <2> QED
        BY <1>8, <2>1 DEF old
<1>10. \A i, j \in DOMAIN new : new[i].id = new[j].id => i = j
    <2> SUFFICES ASSUME NEW i \in DOMAIN new, NEW j \in DOMAIN new, new[i].id = new[j].id
                 PROVE  i = j
        OBVIOUS
    <2>1. i + 1 \in DOMAIN old /\ j + 1 \in DOMAIN old /\ i \in Nat /\ j \in Nat
          /\ new[i] = old[i + 1] /\ new[j] = old[j + 1]
        BY <1>6, <1>7 DEF old, new
    <2>2. i + 1 = j + 1
        BY <1>8, <2>1 DEF old
    <2> QED
        BY <2>1, <2>2
<1>11. \A m \in DOMAIN new : e.priority >= new[m].priority /\ e.id # new[m].id
    <2> TAKE m \in DOMAIN new
    <2>1. m + 1 \in DOMAIN old /\ 1 \in DOMAIN old /\ 1 < m + 1 /\ m + 1 # 1 /\ new[m] = old[m + 1]
        BY <1>6, <1>7 DEF old, new
    <2>2. e.priority = old[1].priority /\ e.id = old[1].id
        BY <1>2, <1>6 DEF old
    <2> QED
        BY <1>8, <2>1, <2>2 DEF old
<1> USE DEF old, new
<1>12. \A i \in Runs(p, pc[p])', m \in DOMAIN todo'[p] :
           /\ ran'[p][i].outcome = "ok"
           /\ ran'[p][i].priority >= todo'[p][m].priority
           /\ ran'[p][i].id # todo'[p][m].id
    BY <1>2, <1>3, <1>5, <1>6, <1>7, <1>11 DEF OrderInv
<1> QED
    BY <1>1, <1>5, <1>9, <1>10, <1>12 DEF OrderInv

\* A handler that ends its list.
LEMMA CutOrdered ==
    ASSUME TypeOK, NEW p \in Calls, OrderInv(p), NEW outcome, Call(p, outcome),
           NEW exitNow, Leave(p, exitNow)
    PROVE  OrderInv(p)'
<1>1. PICK e : /\ Adds(p, e) /\ e.type = pc[p]
               /\ e.id = Head(todo[p]).id /\ e.priority = Head(todo[p]).priority
    BY CallAdds
<1>2. pc[p] \in AdviceTypes /\ todo[p] # <<>>
    BY CallType
<1>3. todo'[p] = <<>> /\ pc'[p] = Unwind(pc[p])
    BY DEF Leave, Goto, TypeOK
<1>4. Rank[e.type] <= Reached(pc'[p]) /\ Reached(pc[p]) <= Reached(pc'[p])
      /\ pc'[p] \notin AdviceTypes
    BY <1>1, <1>2, <1>3 DEF Reached, Rank, AdviceTypes, Unwind
<1>5. /\ \A i, j \in DOMAIN ran'[p] : i < j => InOrder(ran'[p][i], ran'[p][j])
      /\ \A i \in DOMAIN ran'[p] : Rank[ran'[p][i].type] <= Reached(pc'[p])
    BY <1>1, <1>2, <1>4, HeadInOrder, AddedLast
<1> QED
    BY <1>3, <1>4, <1>5 DEF OrderInv, Descending

\* The target is run: only Before and Around advice has been.
LEMMA TargetOrdered ==
    ASSUME TypeOK, NEW p \in Calls, OrderInv(p), NEW kind \in {"return", "panic", "goexit"},
           NEW answer, RunTarget(p, kind, answer),
           \/ pc[p] = "target" /\ pc'[p] \in {"completed", "recover"}
           \/ pc[p] = "bare" /\ pc'[p] = "epilogue"
    PROVE  OrderInv(p)'
<1>1. PICK e : Adds(p, e) /\ e.type = "target"
    BY TargetAdds
<1>2. todo'[p] = todo[p] /\ pc'[p] \notin AdviceTypes
    BY DEF RunTarget, AdviceTypes
<1>3. /\ Rank[e.type] = 3 /\ 3 <= Reached(pc'[p])
      /\ Reached(pc[p]) < 3 /\ Reached(pc[p]) \in Int /\ Reached(pc'[p]) \in Int
    BY <1>1 DEF Reached, Rank
<1>4. \A i \in DOMAIN ran[p] : InOrder(ran[p][i], e)
    BY <1>3, RunRanks DEF OrderInv, InOrder
<1>5. /\ \A i, j \in DOMAIN ran'[p] : i < j => InOrder(ran'[p][i], ran'[p][j])
      /\ \A i \in DOMAIN ran'[p] : Rank[ran'[p][i].type] <= Reached(pc'[p])
    BY <1>1, <1>3, <1>4, AddedLast
<1> QED
    BY <1>2, <1>5 DEF OrderInv

LEMMA StepOrdered ==
    ASSUME TypeOK, TypeOK', ChainsApart, NEW p \in Calls, CallInv(p), OrderInv(p), Step(p)
    PROVE  OrderInv(p)'
<1>1. pc[p] \in Woven => Advised(p)
    BY DEF CallInv, ChainInv
<1>2. CASE StartBefore(p)
    <2>1. /\ pc[p] = "found" /\ Load(p, "Before") /\ ran' = ran /\ Advised(p)
          /\ Reached(pc[p]) < Rank["Before"] /\ "Before" \in AdviceTypes
        BY <1>1, <1>2 DEF StartBefore, history, Reached, Rank, AdviceTypes, Woven
    <2> QED
        BY <2>1, LoadOrdered
<1>3. CASE FinishBefore(p)
    <2>1. /\ pc[p] = "Before" /\ ran' = ran /\ Advised(p)
          /\ Reached(pc[p]) < Rank["Around"] /\ "Around" \in AdviceTypes
        BY <1>1, <1>3 DEF FinishBefore, history, Reached, Rank, AdviceTypes, Woven
    <2>2. CASE Load(p, "Around")
        BY <2>1, <2>2, LoadOrdered
    <2>3. CASE Goto(p, "target") /\ UNCHANGED todo
        <3>1. pc'[p] = "target" /\ pc'[p] \notin AdviceTypes /\ Reached(pc[p]) <= Reached(pc'[p])
            BY <2>1, <2>3 DEF Goto, TypeOK, Reached, AdviceTypes
        <3> QED
            BY <2>1, <2>3, <3>1, MoveOrdered
    <2> QED
        BY <1>3, <2>2, <2>3 DEF FinishBefore
<1>4. CASE FinishAround(p)
    <2>1. /\ pc[p] = "Around" /\ pc'[p] \in {"completed", "target"} /\ ran' = ran /\ todo' = todo
        BY <1>4 DEF FinishAround, Goto, TypeOK, frame, history
    <2>2. pc'[p] \notin AdviceTypes /\ Reached(pc[p]) <= Reached(pc'[p])
        BY <2>1 DEF Reached, AdviceTypes
    <2> QED
        BY <2>1, <2>2, MoveOrdered
<1>5. CASE Complete(p)
    <2>1. /\ pc[p] = "completed" /\ ran' = ran /\ Advised(p)
          /\ Reached(pc[p]) < Rank["AfterReturning"] /\ "AfterReturning" \in AdviceTypes
        BY <1>1, <1>5 DEF Complete, history, Reached, Rank, AdviceTypes, Woven
    <2>2. CASE Load(p, "AfterReturning")
        BY <2>1, <2>2, LoadOrdered
    <2>3. CASE Goto(p, "recover") /\ UNCHANGED todo
        <3>1. pc'[p] = "recover" /\ pc'[p] \notin AdviceTypes /\ Reached(pc[p]) <= Reached(pc'[p])
            BY <2>1, <2>3 DEF Goto, TypeOK, Reached, AdviceTypes
        <3> QED
            BY <2>1, <2>3, <3>1, MoveOrdered
    <2> QED
        BY <1>5, <2>2, <2>3 DEF Complete
<1>6. CASE Recover(p)
    <2>1. /\ pc[p] = "recover" /\ ran' = ran /\ Advised(p)
          /\ Reached(pc[p]) < Rank["AfterThrowing"] /\ "AfterThrowing" \in AdviceTypes
        BY <1>1, <1>6 DEF Recover, history, Reached, Rank, AdviceTypes, Woven
    <2>2. CASE Load(p, "AfterThrowing")
        BY <2>1, <2>2, LoadOrdered
    <2>3. CASE Goto(p, "cleanup") /\ UNCHANGED todo
        <3>1. pc'[p] = "cleanup" /\ pc'[p] \notin AdviceTypes /\ Reached(pc[p]) <= Reached(pc'[p])
            BY <2>1, <2>3 DEF Goto, TypeOK, Reached, AdviceTypes
        <3> QED
            BY <2>1, <2>3, <3>1, MoveOrdered
    <2> QED
        BY <1>6, <2>2, <2>3 DEF Recover
<1>7. CASE StartAfter(p)
    <2>1. /\ pc[p] = "cleanup" /\ Load(p, "After") /\ ran' = ran /\ Advised(p)
          /\ Reached(pc[p]) < Rank["After"] /\ "After" \in AdviceTypes
        BY <1>1, <1>7 DEF StartAfter, history, Reached, Rank, AdviceTypes, Woven
    <2> QED
        BY <2>1, LoadOrdered
<1>8. CASE FinishList(p)
    <2>1. /\ pc[p] \in {"AfterReturning", "AfterThrowing", "After"} /\ ran' = ran
          /\ pc'[p] = Unwind(pc[p]) /\ todo'[p] = <<>>
        BY <1>8 DEF FinishList, Leave, Goto, TypeOK, history
    <2>2. pc'[p] \notin AdviceTypes /\ Reached(pc[p]) <= Reached(pc'[p])
        BY <2>1 DEF Reached, AdviceTypes, Unwind
    <2> QED
        BY <2>1, <2>2, MoveOrdered
<1>9. CASE HandlerReturns(p)
    BY <1>9, ReturnOrdered
<1>10. CASE HandlerFails(p) \/ HandlerRaises(p) \/ HandlerExits(p)
    <2>1. PICK outcome, e : Call(p, outcome) /\ Leave(p, e)
        BY <1>10 DEF HandlerFails, HandlerRaises, HandlerExits
    <2> QED
        BY <2>1, CutOrdered
<1>11. CASE TargetReturns(p)
    <2>1. PICK answer : RunTarget(p, "return", answer)
        BY <1>11 DEF TargetReturns
    <2>2. pc[p] \in {"target", "bare"}
          /\ pc'[p] = IF pc[p] = "bare" THEN "epilogue" ELSE "completed"
        BY <1>11, <2>1 DEF TargetReturns, RunTarget, Goto, TypeOK
    <2> QED
        BY <2>1, <2>2, TargetOrdered
<1>12. CASE TargetPanics(p) \/ TargetExits(p)
    <2>1. PICK kind, e : kind \in {"panic", "goexit"} /\ TargetThrows(p, kind, e)
        BY <1>12 DEF TargetPanics, TargetExits
    <2>2. PICK answer : RunTarget(p, kind, answer)
        BY <2>1 DEF TargetThrows
    <2>3. pc[p] \in {"target", "bare"} /\ pc'[p] = Unwind(pc[p])
        BY <2>1, <2>2 DEF TargetThrows, RunTarget, Goto, TypeOK
    <2> QED
        BY <2>1, <2>2, <2>3, TargetOrdered DEF Unwind
<1>13. CASE Epilogue(p)
    <2>1. pc[p] = "epilogue" /\ pc'[p] = "done" /\ ran' = ran /\ todo' = todo
        BY <1>13 DEF Epilogue, Goto, TypeOK, frame, history
    <2>2. pc'[p] \notin AdviceTypes /\ Reached(pc[p]) <= Reached(pc'[p])
        BY <2>1 DEF Reached, AdviceTypes
    <2> QED
        BY <2>1, <2>2, MoveOrdered
<1> QED
    BY <1>2, <1>3, <1>4, <1>5, <1>6, <1>7, <1>8, <1>9, <1>10, <1>11, <1>12, <1>13 DEF Step

LEMMA InvokeOrdered ==
    ASSUME TypeOK, TypeOK', NEW p \in Calls, OrderInv(p), NEW name \in Names, Invoke(p, name)
    PROVE  OrderInv(p)'
<1>1. pc[p] = "idle" /\ pc'[p] \in {"found", "bare"} /\ ran' = ran /\ todo' = todo
    BY DEF Invoke, Goto, TypeOK, frame, history
<1>2. pc'[p] \notin AdviceTypes /\ Reached(pc[p]) <= Reached(pc'[p])
    BY <1>1 DEF Reached, AdviceTypes
<1> QED
    BY <1>1, <1>2, MoveOrdered

\* The steps of a call leave the registry alone.
LEMMA StepRegistry ==
    ASSUME NEW p \in Calls, Step(p) \/ \E name \in Names : Invoke(p, name)
    PROVE  reg' = reg
BY DEF Step, Invoke, StartBefore, FinishBefore, FinishAround, Complete, Recover, StartAfter,
       FinishList, HandlerReturns, HandlerFails, HandlerRaises, HandlerExits, Call,
       TargetReturns, TargetPanics, TargetExits, TargetThrows, RunTarget, Epilogue

-----------------------------------------------------------------------------

LEMMA InitOrder == Init => SInv
<1> SUFFICES ASSUME Init
             PROVE  SInv
    OBVIOUS
<1>1. ChainsApart
    BY IdsAssumption DEF Init, ChainsApart
<1>2. ASSUME NEW p \in Calls
      PROVE  OrderInv(p)
    <2>1. pc[p] = "idle" /\ ran[p] = <<>> /\ todo[p] = <<>>
        BY DEF Init
    <2> QED
        BY <2>1 DEF OrderInv, Descending, AdviceTypes
<1> QED
    BY <1>1, <1>2, InitInv DEF SInv

LEMMA NextOrder == SInv /\ [Next]_vars => SInv'
<1> SUFFICES ASSUME SInv, [Next]_vars
             PROVE  SInv'
    OBVIOUS
<1>1. IInv /\ IInv' /\ TypeOK /\ TypeOK' /\ ChainsApart
    BY NextInv DEF SInv, IInv
<1>2. \A q \in Calls : CallInv(q) /\ OrderInv(q)
    BY <1>1 DEF SInv, IInv
<1>3. ASSUME NEW q \in Calls, Untouched(q)
      PROVE  OrderInv(q)'
    BY <1>2, <1>3 DEF Untouched, OrderInv, Runs
<1>4. ASSUME NEW p \in Calls, Step(p) \/ \E name \in Names : Invoke(p, name)
      PROVE  SInv'
    <2>1. ChainsApart'
        BY <1>1, <1>4, StepRegistry DEF ChainsApart
    <2>2. OrderInv(p)'
        BY <1>1, <1>2, <1>4, StepOrdered, InvokeOrdered
    <2>3. \A q \in Calls : q # p => OrderInv(q)'
        BY <1>1, <1>3, <1>4, OthersUntouched
    <2> QED
        BY <1>1, <2>1, <2>2, <2>3 DEF SInv
<1>5. CASE Environment
    BY <1>1, <1>3, <1>5, EnvironmentKeeps, EnvironmentToldApart DEF SInv
<1>6. CASE UNCHANGED vars
    <2>1. ChainsApart'
        BY <1>1, <1>6 DEF vars, ChainsApart
    <2> QED
        BY <1>1, <1>3, <1>6, <2>1, StutterKeeps DEF SInv
<1> QED
    BY <1>4, <1>5, <1>6 DEF Next

\* Advice runs in the order of types, by descending priority within a type, never
\* twice and never after a failure of its type: the list a call runs is sorted when it
\* is copied, and what others attach later cannot get in between.
THEOREM OrderIsKept == Spec => []ExecutionOrder
<1>1. SInv => ExecutionOrder
    BY DEF SInv, OrderInv, InOrder, ExecutionOrder
<1> QED
    BY <1>1, InitOrder, NextOrder, PTL DEF Spec
=============================================================================
