---------------------------- MODULE WeaveProofs -----------------------------
(***************************************************************************)
(* Proofs that calls of wrapped functions keep what WeaveProperties says,  *)
(* for any number of calls, wrappers, handlers, chains and registrations.  *)
(***************************************************************************)
EXTENDS WeaveProperties, RegistryMapProofs

-----------------------------------------------------------------------------
(* Contexts, answers and lists of advice.                                  *)

LEMMA ContextType ==
    ASSUME NEW V, NEW E, NEW P, NEW c \in ContextRecord(V, E, P)
    PROVE  /\ \A v \in V : SetResult(c, 0, v) \in ContextRecord(V, E, P)
           /\ \A v \in V : SetResult(c, 0, v).results \in Seq(V \cup {Nil})
           /\ GetResult(c, 0) \in V \cup {Nil}
<1>1. /\ c \in [results : Seq(V \cup {Nil}), error : E \cup {Nil},
                panicValue : P \cup {Nil}, skipped : BOOLEAN]
      /\ c.results \in Seq(V \cup {Nil}) /\ Len(c.results) \in Nat
    BY DEF ContextRecord
<1>2. ASSUME NEW v \in V
      PROVE  /\ SetResult(c, 0, v) \in ContextRecord(V, E, P)
             /\ SetResult(c, 0, v).results \in Seq(V \cup {Nil})
    <2> DEFINE n == IF 0 < Len(c.results) THEN Len(c.results) ELSE 0 + 1
               f == [i \in 1..n |->
                        CASE i = 0 + 1 -> v
                          [] i # 0 + 1 /\ i <= Len(c.results) -> c.results[i]
                          [] OTHER -> Nil]
    <2>1. n \in Nat
        BY <1>1
    <2>2. ASSUME NEW i \in 1..n
          PROVE  f[i] \in V \cup {Nil}
        <3>1. i \in Int
            BY <2>1
        <3>2. CASE i = 1
            BY <3>2
        <3>3. CASE i # 1 /\ i <= Len(c.results)
            <4>1. f[i] = c.results[i]
                BY <3>3
            <4>2. i \in 1..Len(c.results)
                BY <3>1, <3>3, <1>1, <2>1
            <4> QED
                BY <4>1, <4>2, <1>1
        <3>4. CASE i # 1 /\ ~(i <= Len(c.results))
            BY <3>4
        <3> QED
            BY <3>2, <3>3, <3>4
    <2>3. f \in [1..n -> V \cup {Nil}]
        BY <2>2
    <2>4. f \in Seq(V \cup {Nil})
        BY <2>1, <2>3, SeqDef
    <2>5. SetResult(c, 0, v) = [c EXCEPT !.results = f]
        BY DEF SetResult
    <2> HIDE DEF f
    <2> QED
        BY <1>1, <2>4, <2>5 DEF ContextRecord
<1>3. GetResult(c, 0) \in V \cup {Nil}
    BY <1>1 DEF GetResult
<1> QED
    BY <1>2, <1>3

LEMMA TouchedType ==
    ASSUME NEW c \in ContextRecord(ResultValues, ErrorValues, PanicValues),
           NEW d \in Touched(c)
    PROVE  d \in ContextRecord(ResultValues, ErrorValues, PanicValues)
<1>1. HandlerValues \subseteq ResultValues /\ HandlerErrors \subseteq ErrorValues
      /\ HandlerPanics \subseteq PanicValues /\ HandlerSkips \subseteq BOOLEAN
    BY WeaveAssumption DEF ResultValues, ErrorValues, PanicValues
<1>2. c \in [results : Seq(ResultValues \cup {Nil}), error : ErrorValues \cup {Nil},
             panicValue : PanicValues \cup {Nil}, skipped : BOOLEAN]
    BY DEF ContextRecord
<1>3. {c.results} \cup {SetResult(c, 0, v).results : v \in HandlerValues}
         \subseteq Seq(ResultValues \cup {Nil})
    <2>1. \A v \in ResultValues : SetResult(c, 0, v).results \in Seq(ResultValues \cup {Nil})
        BY ContextType
    <2>2. c.results \in Seq(ResultValues \cup {Nil})
        BY <1>2
    <2> QED
        BY <1>1, <2>1, <2>2
<1>4. /\ {c.error} \cup HandlerErrors \subseteq ErrorValues \cup {Nil}
      /\ {c.panicValue} \cup HandlerPanics \subseteq PanicValues \cup {Nil}
      /\ {c.skipped} \cup HandlerSkips \subseteq BOOLEAN
    BY <1>1, <1>2
<1> QED
    BY <1>3, <1>4 DEF Touched, ContextRecord

LEMMA AnswerType ==
    ASSUME NEW e \in Exits, NEW r \in ResultValues, NEW err \in ErrorValues \cup {Nil}
    PROVE  Answer(e, r, err) \in Returns
BY DEF Answer, Exits, Returns

LEMMA ExitTypes ==
    /\ Returned \in Exits /\ Goexit \in Exits
    /\ \A v \in Raised : Panic(v) \in Exits
    /\ \A v : Panic(v).kind = "panic" /\ Panic(v).value = v
    /\ Returned.kind = "return" /\ Goexit.kind = "goexit"
BY DEF Returned, Goexit, Panic, Exits

\* What a list that is being run is taken from.
LEMMA LoadedType ==
    ASSUME NEW r \in RegistryRecord, NEW i \in 1..Len(r.chains), NEW t \in AdviceTypes,
           NEW copy \in SortedCopies(r.chains[i][t])
    PROVE  /\ copy \in Seq(Advice)
           /\ r.chains[i][t] \in Seq(Advice)
           /\ \A k \in DOMAIN r.chains[i][t] :
                 \E m \in DOMAIN copy : copy[m] = r.chains[i][t][k]
<1>1. r.chains[i] \in AdviceChain
    BY DEF RegistryRecord
<1>2. r.chains[i][t] \in Seq(Advice)
    BY <1>1 DEF AdviceChain
<1> QED
    BY <1>2, SortedCopyElements

-----------------------------------------------------------------------------
(* Other goroutines.                                                       *)

LEMMA EnvironmentGrows ==
    ASSUME TypeOK, Environment
    PROVE  reg' \in RegistryRecord /\ RegistryGrown(reg, reg')
<1>1. reg \in RegistryRecord /\ Advices \subseteq Advice
    BY WeaveAssumption DEF TypeOK
<1>2. \A name \in Names : Lookup(reg, name) \in 0..Len(reg.chains)
    BY <1>1 DEF RegistryRecord, Lookup
<1>3. Len(reg.chains) \in Nat
    BY <1>1 DEF RegistryRecord
<1>4. ASSUME NEW name \in Names, RegisterName(name)
      PROVE  reg' \in RegistryRecord /\ RegistryGrown(reg, reg')
    <2>1. reg' = Register(reg, name, Lookup(reg, name)).reg
        BY <1>4 DEF RegisterName
    <2>2. reg' \in RegistryRecord
        BY <1>1, <1>2, <2>1, RegisterType DEF WellDone
    <2>3. reg' \in {reg, WithNewChain(reg, name)}
        BY <2>1 DEF Register, Result
    <2> QED
        BY <1>1, <2>2, <2>3, MethodsGrow
<1>5. ASSUME NEW name \in Names, NEW a \in Advices, AttachAdvice(name, a)
      PROVE  reg' \in RegistryRecord /\ RegistryGrown(reg, reg')
    <2>1. reg' = AddAdvice(reg, name, a, Lookup(reg, name)).reg
        BY <1>5 DEF AttachAdvice
    <2>2. reg' \in RegistryRecord
        BY <1>1, <1>2, <2>1, AddAdviceType DEF WellDone
    <2>3. \/ reg' = reg
          \/ reg' = AddTo(reg, Lookup(reg, name), a) /\ Lookup(reg, name) # NoChain
        BY <2>1 DEF AddAdvice, Result
    <2>4. Lookup(reg, name) # NoChain => Lookup(reg, name) \in 1..Len(reg.chains)
        BY <1>2, <1>3 DEF NoChain
    <2> QED
        BY <1>1, <2>2, <2>3, <2>4, MethodsGrow
<1>6. ASSUME NEW name \in Names, UnregisterName(name)
      PROVE  reg' \in RegistryRecord /\ RegistryGrown(reg, reg')
    BY <1>1, <1>6, RemoveType, MethodsGrow DEF UnregisterName, WellDone
<1>7. ASSUME ClearRegistry
      PROVE  reg' \in RegistryRecord /\ RegistryGrown(reg, reg')
    <2>1. EmptyName \in Names
        BY NamesAssumption
    <2> QED
        BY <1>1, <1>7, <2>1, RemoveType, MethodsGrow DEF ClearRegistry, WellDone
<1>8. ASSUME NEW i \in DOMAIN reg.chains, NEW a \in Advices, AttachThroughPointer(i, a)
      PROVE  reg' \in RegistryRecord /\ RegistryGrown(reg, reg')
    <2>1. i \in 1..Len(reg.chains)
        BY <1>1 DEF RegistryRecord
    <2>2. EmptyName \in Names
        BY NamesAssumption
    <2> QED
        BY <1>1, <1>8, <2>1, <2>2, AddToType, MethodsGrow DEF AttachThroughPointer
<1>9. ASSUME NEW entries \in [Names -> 0..Len(reg.chains)], SetGlobalRegistry(entries)
      PROVE  reg' \in RegistryRecord /\ RegistryGrown(reg, reg')
    <2>1. reg' = [reg EXCEPT !.entries = entries]
        BY <1>9 DEF SetGlobalRegistry
    <2> DEFINE e == entries
    <2>0. e \in [Names -> Nat] /\ \A n \in Names : e[n] \in 0..Len(reg.chains)
        BY <1>3
    <2> HIDE DEF e
    <2>2. reg'.entries = e /\ reg'.chains = reg.chains /\ reg' \in RegistryRecord
        BY <1>1, <2>0, <2>1 DEF RegistryRecord, e
    <2>3. RegistryGrown(reg, reg)
        BY <1>1, NamesAssumption, MethodsGrow
    <2> QED
        BY <2>2, <2>3 DEF RegistryGrown
<1> QED
    BY <1>4, <1>5, <1>6, <1>7, <1>8, <1>9 DEF Environment

-----------------------------------------------------------------------------
(* The inductive invariant, for one call p.                                *)

\* Places that only calls of registered functions are in.
Woven == AdviceTypes \cup {"found", "target", "completed", "recover", "cleanup"}

NothingRun(place)  == place \in {"idle", "bare", "found"}
NotYetTarget(place) == place \in {"Before", "Around", "target"}
NotYetAfter(place)  == place \notin {"After", "epilogue", "done"}

\* A call has a chain exactly when its name was registered, and no advice that
\* was attached when the call began is ever lost from it.
ChainInv(p) ==
    /\ pc[p] \in Woven => Advised(p)
    /\ pc[p] \in {"idle", "bare"} => ~Advised(p)
    /\ Advised(p) => Grown(atLookup[p], reg.chains[chain[p]])

\* What has not been run yet.
FreshInv(p) ==
    /\ NothingRun(pc[p]) => ran[p] = <<>>
    /\ NotYetTarget(pc[p]) => ~TargetRan(p)
    /\ pc[p] = "Before" => Runs(p, "Around") = {}
    /\ NotYetAfter(pc[p]) => Runs(p, "After") = {}

\* The k-th piece of that type of advice has run or is about to.
Covered(p, type, k) ==
    \/ \E i \in Runs(p, type) : ran[p][i].id = atLookup[p][type][k].id
    \/ \E m \in DOMAIN todo[p] : todo[p][m].id = atLookup[p][type][k].id

\* While a list is being run nothing of it is left out.
ListInv(p) ==
    /\ pc[p] \in AdviceTypes =>
          \A k \in DOMAIN atLookup[p][pc[p]] : Covered(p, pc[p], k)
    /\ pc[p] \in {"Before", "Around", "After"} => ~Cut(p, pc[p])

Passed(p, type) == RanAll(p, type) /\ ~Cut(p, type)

\* Before and Around advice lie behind a call that is about to run its target,
\* or has run it.
GuardInv(p) ==
    /\ pc[p] = "Around" => Passed(p, "Before")
    /\ pc[p] = "target" \/ (Advised(p) /\ TargetRan(p)) =>
          Passed(p, "Before") /\ Passed(p, "Around")

\* After advice lies behind a call that has left executeWithAdvice.
CleanupInv(p) ==
    Advised(p) /\ pc[p] \in {"epilogue", "done"} => RanAll(p, "After") \/ Cut(p, "After")

\* exit is the last fatal outcome.
ExitInv(p) ==
    IF FatalRuns(p) = {} THEN exit[p] = Returned
    ELSE \E i \in FatalRuns(p) :
            /\ \A j \in FatalRuns(p) : j <= i
            /\ exit[p] = ExitOf(ran[p][i])

CallInv(p) ==
    /\ ChainInv(p)
    /\ FreshInv(p)
    /\ ListInv(p)
    /\ GuardInv(p)
    /\ CleanupInv(p)
    /\ ExitInv(p)

\* What the caller of p was given.
AnswerInv(p) == Done(p) =>
    IF FatalRuns(p) = {}
    THEN \/ ret[p].kind = "return"
         \/ /\ ret[p] = Answer(Panic("type assertion"), Zero, Nil)
            /\ wrapper[p] \in {"Wrap0R", "Wrap0RE"}
            /\ GetResult(ctx[p], 0) \in ForeignValues
    ELSE \E i \in FatalRuns(p) :
            /\ \A j \in FatalRuns(p) : j <= i
            /\ ret[p] = Answer(ExitOf(ran[p][i]), Zero, Nil)

IInv == TypeOK /\ \A p \in Calls : CallInv(p) /\ AnswerInv(p)

-----------------------------------------------------------------------------
(* Types.                                                                  *)

LEMMA InitType == Init => TypeOK
<1> SUFFICES ASSUME Init PROVE TypeOK
    OBVIOUS
<1>1. reg \in RegistryRecord
    BY WeaveAssumption DEF Init
<1>2. Len(reg.chains) \in Nat
    BY <1>1 DEF RegistryRecord
<1>6. NewContext \in ContextRecord(ResultValues, ErrorValues, PanicValues)
    BY DEF NewContext, ContextRecord
<1>7. Answer(Returned, Zero, Nil) \in Returns
    BY AnswerType, ExitTypes DEF ResultValues
<1> QED
    BY <1>1, <1>2, <1>6, <1>7, ExitTypes, NewChainType DEF Init, TypeOK, NoChain, ResultValues

\* Handlers of a list that is being run.
LEMMA ListType ==
    ASSUME TypeOK, NEW p \in Calls, todo[p] # <<>>
    PROVE  /\ todo[p] \in Seq(Advice) /\ Tail(todo[p]) \in Seq(Advice)
           /\ Head(todo[p]) \in Advice
           /\ Head(todo[p]).priority \in Int /\ Head(todo[p]).id \in AdviceIds
           /\ DOMAIN todo[p] = 1..Len(todo[p]) /\ Len(todo[p]) \in Nat /\ 1 \in DOMAIN todo[p]
           /\ Head(todo[p]) = todo[p][1]
           /\ \A m \in DOMAIN todo[p] : m = 1 \/ (m - 1 \in DOMAIN Tail(todo[p])
                                                  /\ Tail(todo[p])[m - 1] = todo[p][m])
<1>1. todo[p] \in Seq(Advice)
    BY DEF TypeOK
<1>2. Tail(todo[p]) \in Seq(Advice) /\ Head(todo[p]) \in Advice
    BY <1>1
<1>3. Head(todo[p]).priority \in Int /\ Head(todo[p]).id \in AdviceIds
    BY <1>2 DEF Advice
<1> QED
    BY <1>1, <1>2, <1>3

\* A step that only starts a list or moves on.
LEMMA LoadKeepsTypes ==
    ASSUME TypeOK, NEW p \in Calls, NEW type \in AdviceTypes, Advised(p), Load(p, type),
           UNCHANGED <<reg, exit, local, ret, fixed, history>>,
           ctx' \in [Calls -> ContextRecord(ResultValues, ErrorValues, PanicValues)]
    PROVE  TypeOK'
<1>1. chain[p] \in 1..Len(reg.chains) /\ reg \in RegistryRecord
    BY DEF TypeOK, Advised, NoChain, RegistryRecord
<1>2. PICK list \in SortedCopies(reg.chains[chain[p]][type]) :
          todo' = [todo EXCEPT ![p] = list]
    BY DEF Load
<1>3. list \in Seq(Advice)
    BY <1>1, LoadedType
<1>4. todo' \in [Calls -> Seq(Advice)]
    BY <1>2, <1>3 DEF TypeOK
<1>5. pc' \in [Calls -> AdviceTypes \cup {"idle", "bare", "found", "target", "completed",
                                          "recover", "cleanup", "epilogue", "done"}]
    BY DEF TypeOK, Load, Goto
<1> QED
    BY <1>4, <1>5 DEF TypeOK, fixed, history

LEMMA MoveKeepsTypes ==
    ASSUME TypeOK, NEW p \in Calls, NEW place,
           place \in AdviceTypes \cup {"idle", "bare", "found", "target", "completed",
                                       "recover", "cleanup", "epilogue", "done"},
           Goto(p, place), UNCHANGED <<reg, ret, frame, fixed, history>>
    PROVE  TypeOK'
BY DEF TypeOK, Goto, frame, fixed, history

LEMMA UnwindType == \A place : Unwind(place) \in {"cleanup", "epilogue", "recover"}
BY DEF Unwind

LEMMA LeaveType ==
    ASSUME TypeOK, NEW p \in Calls, NEW e \in Exits, Leave(p, e)
    PROVE  /\ pc' \in [Calls -> AdviceTypes \cup {"idle", "bare", "found", "target", "completed",
                                                  "recover", "cleanup", "epilogue", "done"}]
           /\ exit' \in [Calls -> Exits]
           /\ todo' \in [Calls -> Seq(Advice)]
<1>1. Unwind(pc[p]) \in {"cleanup", "epilogue", "recover"}
    BY UnwindType
<1>2. <<>> \in Seq(Advice)
    OBVIOUS
<1> QED
    BY <1>1, <1>2 DEF Leave, TypeOK, Goto

LEMMA CallType ==
    ASSUME TypeOK, NEW p \in Calls, NEW outcome, Call(p, outcome)
    PROVE  /\ ran' \in [Calls -> Seq(RunRecord)]
           /\ ctx' \in [Calls -> ContextRecord(ResultValues, ErrorValues, PanicValues)]
           /\ inert' \in [Calls -> BOOLEAN]
           /\ UNCHANGED <<reg, local, ret, bare, fixed>>
           /\ pc[p] \in AdviceTypes /\ pc[p] \in Raised /\ todo[p] # <<>>
           /\ outcome \in {"ok", "error", "panic", "goexit"}
<1>1. /\ pc[p] \in AdviceTypes /\ todo[p] # <<>>
      /\ outcome \in {"ok", "error", "panic", "goexit"}
    BY WeaveAssumption DEF Call
<1>2. PICK c \in Touched(ctx[p]) :
          /\ ctx' = [ctx EXCEPT ![p] = c]
          /\ inert' = [inert EXCEPT ![p] = @ /\ outcome = "ok" /\ c = ctx[p]]
    BY DEF Call
<1>3. c \in ContextRecord(ResultValues, ErrorValues, PanicValues)
    BY TouchedType DEF TypeOK
<1> DEFINE e == [type |-> pc[p], priority |-> Head(todo[p]).priority,
                 id |-> Head(todo[p]).id, outcome |-> outcome]
<1>4. e \in RunRecord
    BY <1>1, ListType DEF RunRecord, Phases
<1>5. ran' = [ran EXCEPT ![p] = Append(@, e)]
    BY DEF Call, Record
<1> HIDE DEF e
<1>6. ran' \in [Calls -> Seq(RunRecord)]
    BY <1>4, <1>5 DEF TypeOK
<1>7. inert' \in [Calls -> BOOLEAN]
    <2> DEFINE b == inert[p] /\ outcome = "ok" /\ c = ctx[p]
    <2>1. b \in BOOLEAN /\ inert' = [inert EXCEPT ![p] = b]
        BY <1>2 DEF TypeOK
    <2> HIDE DEF b
    <2> QED
        BY <2>1 DEF TypeOK
<1> QED
    BY <1>1, <1>2, <1>3, <1>6, <1>7 DEF Call, Raised, Phases, TypeOK

LEMMA RunTargetType ==
    ASSUME TypeOK, NEW p \in Calls, NEW kind, NEW answer \in Returns,
           kind \in {"return", "panic", "goexit"}, RunTarget(p, kind, answer)
    PROVE  /\ ran' \in [Calls -> Seq(RunRecord)]
           /\ bare' \in [Calls -> Returns]
           /\ UNCHANGED <<reg, todo, ret, inert, fixed>>
<1> DEFINE e == [type |-> "target", priority |-> 0, id |-> "target",
                 outcome |-> IF kind = "return" THEN "ok" ELSE kind]
<1>1. e \in RunRecord
    BY DEF RunRecord, Phases
<1>2. ran' = [ran EXCEPT ![p] = Append(@, e)]
    BY DEF RunTarget, Record
<1> HIDE DEF e
<1> QED
    BY <1>1, <1>2 DEF TypeOK, RunTarget

LEMMA OverrideType ==
    ASSUME TypeOK, NEW p \in Calls
    PROVE  /\ GetResult(ctx[p], 0) \in ResultValues \cup {Nil}
           /\ CallerResult(p) \in ResultValues
           /\ CallerError(p) \in ErrorValues \cup {Nil}
<1>1. /\ ctx[p] \in ContextRecord(ResultValues, ErrorValues, PanicValues)
      /\ local[p] \in [result : ResultValues, error : ErrorValues \cup {Nil}]
    BY DEF TypeOK
<1>2. GetResult(ctx[p], 0) \in ResultValues \cup {Nil}
    BY <1>1, ContextType
<1>3. Override(p) \in ResultValues \cup {Nil}
    BY <1>2 DEF Override
<1>4. ctx[p].error \in ErrorValues \cup {Nil}
    BY <1>1 DEF ContextRecord
<1> QED
    BY <1>1, <1>2, <1>3, <1>4 DEF CallerResult, CallerError

\* The steps of a call, one by one.
LEMMA StepType ==
    ASSUME TypeOK, NEW p \in Calls, ChainInv(p), Step(p)
    PROVE  TypeOK'
<1> DEFINE Contexts == ContextRecord(ResultValues, ErrorValues, PanicValues)
<1> USE DEF Woven
<1>0. ctx \in [Calls -> Contexts] /\ exit \in [Calls -> Exits] /\ exit[p] \in Exits
    BY DEF TypeOK
<1>1. CASE StartBefore(p)
    <2>1. Advised(p) /\ "Before" \in AdviceTypes
        BY <1>1 DEF StartBefore, ChainInv, AdviceTypes
    <2> QED
        BY <1>0, <1>1, <2>1, LoadKeepsTypes DEF StartBefore
<1>2. CASE FinishBefore(p)
    <2>1. Advised(p) /\ "Around" \in AdviceTypes
        BY <1>2 DEF FinishBefore, ChainInv, AdviceTypes
    <2>2. CASE HasAround(reg.chains[chain[p]])
        BY <1>0, <1>2, <2>1, <2>2, LoadKeepsTypes DEF FinishBefore
    <2>3. CASE ~HasAround(reg.chains[chain[p]])
        BY <1>2, <2>3, MoveKeepsTypes DEF FinishBefore, frame
    <2> QED
        BY <2>2, <2>3
<1>3. CASE FinishAround(p)
    BY <1>3, MoveKeepsTypes DEF FinishAround
<1>4. CASE Complete(p)
    <2>1. Advised(p) /\ "AfterReturning" \in AdviceTypes
        BY <1>4 DEF Complete, ChainInv, AdviceTypes
    <2>2. CASE ctx[p].error = Nil /\ ~HasPanic(ctx[p])
        BY <1>0, <1>4, <2>1, <2>2, LoadKeepsTypes DEF Complete
    <2>3. CASE ~(ctx[p].error = Nil /\ ~HasPanic(ctx[p]))
        BY <1>4, <2>3, MoveKeepsTypes DEF Complete, frame
    <2> QED
        BY <2>2, <2>3
<1>5. CASE Recover(p)
    <2>1. Advised(p) /\ "AfterThrowing" \in AdviceTypes
        BY <1>5 DEF Recover, ChainInv, AdviceTypes
    <2>2. CASE exit[p].kind = "panic"
        <3>1. exit[p].value \in PanicValues \cup {Nil}
            BY <1>0 DEF Exits, PanicValues
        <3>2. ctx' = [ctx EXCEPT ![p].panicValue = exit[p].value]
            BY <1>5, <2>2 DEF Recover
        <3>3. [ctx[p] EXCEPT !.panicValue = exit[p].value] \in Contexts
            BY <1>0, <3>1 DEF ContextRecord
        <3>4. ctx' \in [Calls -> Contexts]
            BY <1>0, <3>2, <3>3
        <3> QED
            BY <1>5, <2>1, <2>2, <3>4, LoadKeepsTypes DEF Recover
    <2>3. CASE exit[p].kind # "panic"
        BY <1>5, <2>3, MoveKeepsTypes DEF Recover, frame
    <2> QED
        BY <2>2, <2>3
<1>6. CASE StartAfter(p)
    <2>1. Advised(p) /\ "After" \in AdviceTypes
        BY <1>6 DEF StartAfter, ChainInv, AdviceTypes
    <2> QED
        BY <1>0, <1>6, <2>1, LoadKeepsTypes DEF StartAfter
<1>7. CASE FinishList(p)
    BY <1>0, <1>7, LeaveType DEF FinishList, TypeOK, fixed, history
<1>8. CASE HandlerReturns(p)
    <2>1. Call(p, "ok")
        BY <1>8 DEF HandlerReturns
    <2>2. todo' \in [Calls -> Seq(Advice)]
        BY <1>8, <2>1, CallType, ListType DEF HandlerReturns, TypeOK
    <2> QED
        BY <1>8, <2>1, <2>2, CallType DEF HandlerReturns, TypeOK, fixed
<1>9. CASE HandlerFails(p)
    <2>1. Call(p, "error")
        BY <1>9 DEF HandlerFails
    <2>2. PICK e \in Exits : Leave(p, e)
        <3>1. "before advice failed" \in Raised /\ "around advice failed" \in Raised
            BY DEF Raised
        <3> QED
            BY <1>0, <1>9, <3>1, ExitTypes DEF HandlerFails
    <2> QED
        BY <2>1, <2>2, CallType, LeaveType DEF TypeOK, fixed
<1>10. CASE HandlerRaises(p)
    <2>1. Call(p, "panic") /\ Leave(p, Panic(pc[p]))
        BY <1>10 DEF HandlerRaises
    <2>2. Panic(pc[p]) \in Exits
        BY <2>1, CallType, ExitTypes
    <2> QED
        BY <2>1, <2>2, CallType, LeaveType DEF TypeOK, fixed
<1>11. CASE HandlerExits(p)
    <2>1. Call(p, "goexit") /\ Leave(p, Goexit)
        BY <1>11 DEF HandlerExits
    <2> QED
        BY <2>1, ExitTypes, CallType, LeaveType DEF TypeOK, fixed
<1>12. CASE TargetReturns(p)
    <2>1. PICK r \in IF Wrapper(p).result THEN TargetValues ELSE {Zero},
               err \in IF Wrapper(p).error THEN TargetErrors \cup {Nil} ELSE {Nil} :
            /\ RunTarget(p, "return", Answer(Returned, r, err))
            /\ local' = [local EXCEPT ![p] = [result |-> r, error |-> err]]
            /\ ctx' = [ctx EXCEPT ![p] = Stored(p, @, r, err)]
            /\ Goto(p, IF pc[p] = "bare" THEN "epilogue" ELSE "completed")
            /\ UNCHANGED exit
        BY <1>12 DEF TargetReturns
    <2>2. r \in ResultValues /\ err \in ErrorValues \cup {Nil}
        BY DEF ResultValues, ErrorValues
    <2>3. Answer(Returned, r, err) \in Returns
        BY <2>2, AnswerType, ExitTypes
    <2>4. local' \in [Calls -> [result : ResultValues, error : ErrorValues \cup {Nil}]]
        BY <2>1, <2>2 DEF TypeOK
    <2>5. ctx' \in [Calls -> Contexts]
        <3> DEFINE d == IF Wrapper(p).result THEN SetResult(ctx[p], 0, r) ELSE ctx[p]
        <3>1. d \in Contexts
            BY <1>0, <2>2, ContextType
        <3>2. [d EXCEPT !.error = err] \in Contexts
            BY <2>2, <3>1 DEF ContextRecord
        <3>3. Stored(p, ctx[p], r, err) \in Contexts
            BY <3>1, <3>2 DEF Stored
        <3> QED
            BY <1>0, <2>1, <3>3
    <2>6. /\ ran' \in [Calls -> Seq(RunRecord)]
          /\ bare' \in [Calls -> Returns]
          /\ UNCHANGED <<reg, todo, ret, inert, fixed>>
        BY <2>1, <2>3, RunTargetType
    <2> QED
        BY <2>1, <2>4, <2>5, <2>6 DEF TypeOK, Goto, fixed
<1>13. ASSUME NEW kind \in {"panic", "goexit"}, NEW e \in Exits, TargetThrows(p, kind, e)
       PROVE  TypeOK'
    <2>1. Answer(e, Zero, Nil) \in Returns
        BY AnswerType DEF ResultValues
    <2>2. RunTarget(p, kind, Answer(e, Zero, Nil))
        BY <1>13 DEF TargetThrows
    <2>3. /\ ran' \in [Calls -> Seq(RunRecord)]
          /\ bare' \in [Calls -> Returns]
          /\ UNCHANGED <<reg, todo, ret, inert, fixed>>
        BY <2>1, <2>2, RunTargetType
    <2>4. Unwind(pc[p]) \in {"cleanup", "epilogue", "recover"}
        BY UnwindType
    <2> QED
        BY <1>13, <2>3, <2>4 DEF TypeOK, TargetThrows, Goto, fixed
<1>14. CASE TargetPanics(p) \/ TargetExits(p)
    <2>1. Panic("target") \in Exits /\ Goexit \in Exits
        BY ExitTypes DEF Raised, Phases
    <2> QED
        BY <1>13, <1>14, <2>1 DEF TargetPanics, TargetExits
<1>15. CASE Epilogue(p)
    <2>1. Panic("type assertion") \in Exits
        BY ExitTypes DEF Raised
    <2>2. \E answer \in Returns : ret' = [ret EXCEPT ![p] = answer]
        <3> DEFINE a1 == Answer(exit[p], Zero, Nil)
                   a2 == Answer(Panic("type assertion"), Zero, Nil)
                   a3 == Answer(exit[p], CallerResult(p), CallerError(p))
        <3>1. a1 \in Returns /\ a2 \in Returns /\ a3 \in Returns
            BY <1>0, <2>1, AnswerType, OverrideType DEF ResultValues
        <3>2. \/ ret' = [ret EXCEPT ![p] = a1]
              \/ ret' = [ret EXCEPT ![p] = a2]
              \/ ret' = [ret EXCEPT ![p] = a3]
            BY <1>15 DEF Epilogue
        <3> HIDE DEF a1, a2, a3
        <3> QED
            BY <3>1, <3>2
    <2> QED
        BY <1>15, <2>2 DEF Epilogue, TypeOK, Goto, frame, fixed, history
<1> QED
    BY <1>1, <1>2, <1>3, <1>4, <1>5, <1>6, <1>7, <1>8, <1>9, <1>10, <1>11, <1>12, <1>14, <1>15
    DEF Step

LEMMA InvokeType ==
    ASSUME TypeOK, NEW p \in Calls, NEW name \in Names, Invoke(p, name)
    PROVE  TypeOK'
<1> DEFINE i == Lookup(reg, name)
           found == GetAdviceChain(reg, name, i).reply
<1>1. i \in 0..Len(reg.chains) /\ reg \in RegistryRecord /\ Len(reg.chains) \in Nat
    BY DEF TypeOK, RegistryRecord, Lookup
<1>2. found.error = "none" => found.chain = i /\ i # NoChain
    BY DEF GetAdviceChain, Result, Ok, Failed
<1>3. CASE found.error = "none"
    <2>1. /\ chain' = [chain EXCEPT ![p] = i]
          /\ atLookup' = [atLookup EXCEPT ![p] = reg.chains[i]]
          /\ pc' = [pc EXCEPT ![p] = "found"]
        BY <1>2, <1>3 DEF Invoke, Goto
    <2>2. reg.chains[i] \in AdviceChain
        BY <1>1, <1>2, <1>3 DEF RegistryRecord, NoChain
    <2> QED
        BY <1>1, <2>1, <2>2 DEF Invoke, TypeOK, frame, history
<1>4. CASE found.error # "none"
    BY <1>4 DEF Invoke, Goto, TypeOK, frame, history
<1> QED
    BY <1>3, <1>4

LEMMA EnvironmentType ==
    ASSUME TypeOK, Environment
    PROVE  TypeOK'
<1>1. reg' \in RegistryRecord /\ Len(reg.chains) <= Len(reg'.chains)
    BY EnvironmentGrows DEF RegistryGrown
<1>2. Len(reg.chains) \in Nat /\ Len(reg'.chains) \in Nat
    BY <1>1 DEF TypeOK, RegistryRecord
<1>3. UNCHANGED <<pc, ret, frame, fixed, history>>
    BY DEF Environment
<1> QED
    BY <1>1, <1>2, <1>3 DEF TypeOK, frame, fixed, history

-----------------------------------------------------------------------------
(* Steps of other goroutines keep the invariant of a call.                 *)

\* Nothing of call q changes, and no chain loses advice.
Untouched(q) ==
    /\ pc'[q] = pc[q] /\ wrapper'[q] = wrapper[q] /\ chain'[q] = chain[q]
    /\ ctx'[q] = ctx[q] /\ todo'[q] = todo[q] /\ exit'[q] = exit[q]
    /\ ret'[q] = ret[q] /\ ran'[q] = ran[q] /\ atLookup'[q] = atLookup[q]
    /\ RegistryGrown(reg, reg')

LEMMA UntouchedKept ==
    ASSUME TypeOK, NEW q \in Calls, Untouched(q), CallInv(q), AnswerInv(q)
    PROVE  CallInv(q)' /\ AnswerInv(q)'
<1>1. /\ \A t : Runs(q, t)' = Runs(q, t)
      /\ \A t : RanAll(q, t)' = RanAll(q, t)
      /\ \A t : Cut(q, t)' = Cut(q, t)
      /\ TargetRan(q)' = TargetRan(q)
      /\ FatalRuns(q)' = FatalRuns(q)
      /\ Advised(q)' = Advised(q)
    BY DEF Untouched, Runs, RanAll, Cut, TargetRan, FatalRuns, Advised
<1>2. ChainInv(q)'
    <2>1. Advised(q) => chain[q] \in 1..Len(reg.chains)
        BY DEF Advised, TypeOK, NoChain, RegistryRecord
    <2>2. Advised(q) => Grown(reg.chains[chain[q]], reg'.chains[chain[q]])
        BY <2>1 DEF Untouched, RegistryGrown
    <2>3. Advised(q) => Grown(atLookup[q], reg'.chains[chain[q]])
        BY <2>2 DEF CallInv, ChainInv, Grown
    <2> QED
        BY <1>1, <2>3 DEF CallInv, ChainInv, Untouched
<1>3. FreshInv(q)' /\ GuardInv(q)' /\ CleanupInv(q)'
    BY <1>1 DEF CallInv, FreshInv, GuardInv, CleanupInv, Passed, Untouched,
                NothingRun, NotYetTarget, NotYetAfter
<1>4. ListInv(q)'
    BY <1>1 DEF CallInv, ListInv, Covered, Untouched
<1>5. ExitInv(q)' /\ AnswerInv(q)'
    BY <1>1 DEF CallInv, ExitInv, AnswerInv, Untouched, Done
<1> QED
    BY <1>2, <1>3, <1>4, <1>5 DEF CallInv

LEMMA OthersUntouched ==
    ASSUME TypeOK, NEW p \in Calls, Step(p) \/ \E name \in Names : Invoke(p, name),
           NEW q \in Calls, q # p
    PROVE  Untouched(q)
<1>1. RegistryGrown(reg, reg)
    BY NamesAssumption, MethodsGrow DEF TypeOK
<1> USE <1>1 DEF Untouched, TypeOK, Goto, frame, fixed, history
<1>2. ASSUME NEW type, Load(p, type)
      PROVE  todo'[q] = todo[q] /\ pc'[q] = pc[q]
    BY <1>2 DEF Load
<1>3. ASSUME NEW e, Leave(p, e)
      PROVE  todo'[q] = todo[q] /\ pc'[q] = pc[q] /\ exit'[q] = exit[q]
    BY <1>3 DEF Leave
<1>4. ASSUME NEW outcome, Call(p, outcome)
      PROVE  /\ ran'[q] = ran[q] /\ ctx'[q] = ctx[q]
             /\ UNCHANGED <<reg, local, ret, bare, fixed>>
    BY <1>4 DEF Call, Record
<1>5. ASSUME NEW kind, NEW answer, RunTarget(p, kind, answer)
      PROVE  ran'[q] = ran[q] /\ UNCHANGED <<reg, todo, ret, inert, fixed>>
    BY <1>5 DEF RunTarget, Record
<1>6. CASE StartBefore(p) \/ FinishBefore(p) \/ Complete(p) \/ StartAfter(p)
    BY <1>2, <1>6 DEF StartBefore, FinishBefore, Complete, StartAfter
<1>7. CASE FinishAround(p) \/ Epilogue(p)
    BY <1>7 DEF FinishAround, Epilogue
<1>8. CASE Recover(p)
    BY <1>2, <1>8 DEF Recover
<1>9. CASE FinishList(p)
    BY <1>3, <1>9 DEF FinishList
<1>10. CASE HandlerReturns(p)
    BY <1>4, <1>10 DEF HandlerReturns
<1>11. CASE HandlerFails(p) \/ HandlerRaises(p) \/ HandlerExits(p)
    BY <1>3, <1>4, <1>11 DEF HandlerFails, HandlerRaises, HandlerExits
<1>12. CASE TargetReturns(p)
    BY <1>5, <1>12 DEF TargetReturns
<1>13. CASE TargetPanics(p) \/ TargetExits(p)
    BY <1>5, <1>13 DEF TargetPanics, TargetExits, TargetThrows
<1>14. CASE \E name \in Names : Invoke(p, name)
    BY <1>14 DEF Invoke
<1> QED
    BY <1>6, <1>7, <1>8, <1>9, <1>10, <1>11, <1>12, <1>13, <1>14 DEF Step

LEMMA EnvironmentKeeps ==
    ASSUME TypeOK, Environment, NEW q \in Calls
    PROVE  Untouched(q)
BY EnvironmentGrows DEF Environment, Untouched, frame, fixed, history

LEMMA StutterKeeps ==
    ASSUME TypeOK, UNCHANGED vars, NEW q \in Calls
    PROVE  Untouched(q)
BY NamesAssumption, MethodsGrow DEF TypeOK, vars, Untouched, frame, fixed, history

-----------------------------------------------------------------------------
(* The steps of a call itself.                                             *)

\* p runs nothing in this step.
Quiet(p) ==
    /\ UNCHANGED <<reg, ran, fixed>>
    /\ exit'[p] = exit[p]

LEMMA QuietKeeps ==
    ASSUME NEW p \in Calls, Quiet(p), CallInv(p)
    PROVE  /\ \A t : Runs(p, t)' = Runs(p, t)
           /\ \A t : RanAll(p, t)' = RanAll(p, t)
           /\ \A t : Cut(p, t)' = Cut(p, t)
           /\ TargetRan(p)' = TargetRan(p)
           /\ FatalRuns(p)' = FatalRuns(p)
           /\ Advised(p)' = Advised(p)
           /\ ran'[p] = ran[p]
           /\ atLookup'[p] = atLookup[p]
           /\ Advised(p) => Grown(atLookup'[p], reg'.chains[chain'[p]])
           /\ ExitInv(p)'
BY DEF Quiet, fixed, Runs, RanAll, Cut, TargetRan, FatalRuns, Advised, CallInv, ChainInv, ExitInv

\* p runs a handler or the target in this step, which adds e to its history.
Adds(p, e) ==
    /\ e \in RunRecord
    /\ ran' = [ran EXCEPT ![p] = Append(@, e)]
    /\ UNCHANGED <<reg, fixed>>

LEMMA AddsRecord ==
    ASSUME TypeOK, NEW p \in Calls, NEW e, Adds(p, e), CallInv(p)
    PROVE  /\ \A t : RanAll(p, t) => RanAll(p, t)'
           /\ \A t : Cut(p, t)' <=> (Cut(p, t) \/ (t = e.type /\ e.outcome # "ok"))
           /\ \A t : t # e.type => Runs(p, t)' = Runs(p, t)
           /\ \A t : \A i \in Runs(p, t) : i \in Runs(p, t)' /\ ran'[p][i] = ran[p][i]
           /\ \E i \in Runs(p, e.type)' : ran'[p][i].id = e.id
           /\ e.type # "target" => TargetRan(p)' = TargetRan(p)
           /\ Advised(p)' = Advised(p)
           /\ atLookup'[p] = atLookup[p]
           /\ Advised(p) => Grown(atLookup'[p], reg'.chains[chain'[p]])
           /\ Fatal(e) /\ exit'[p] = ExitOf(e) => ExitInv(p)'
           /\ ~Fatal(e) /\ exit'[p] = exit[p] => ExitInv(p)'
<1> DEFINE n == Len(ran[p]) + 1
<1>1. ran[p] \in Seq(RunRecord) /\ Len(ran[p]) \in Nat /\ DOMAIN ran[p] = 1..Len(ran[p])
    BY DEF TypeOK
<1>2. ran'[p] = Append(ran[p], e)
    BY DEF Adds, TypeOK
<1>3. /\ DOMAIN ran'[p] = DOMAIN ran[p] \cup {n}
      /\ n \notin DOMAIN ran[p] /\ n \in Nat
      /\ \A i \in DOMAIN ran[p] : i < n
      /\ \A i \in DOMAIN ran[p] : ran'[p][i] = ran[p][i]
      /\ ran'[p][n] = e
    BY <1>1, <1>2 DEF Adds
<1> HIDE DEF n
<1>4. \A t : Runs(p, t)' = Runs(p, t) \cup (IF t = e.type THEN {n} ELSE {})
    BY <1>3 DEF Runs
<1>5. \A t : \A i \in Runs(p, t) : i \in Runs(p, t)' /\ ran'[p][i] = ran[p][i]
    BY <1>3, <1>4 DEF Runs
<1>6. \A t : RanAll(p, t) => RanAll(p, t)'
    BY <1>5 DEF RanAll, Adds, fixed
<1>7. \A t : Cut(p, t)' <=> (Cut(p, t) \/ (t = e.type /\ e.outcome # "ok"))
    <2> SUFFICES ASSUME NEW t
                 PROVE  Cut(p, t)' <=> (Cut(p, t) \/ (t = e.type /\ e.outcome # "ok"))
        OBVIOUS
    <2>1. CASE t # e.type
        <3>1. Runs(p, t)' = Runs(p, t)
            BY <1>4, <2>1
        <3> QED
            BY <1>5, <2>1, <3>1 DEF Cut
    <2>2. CASE t = e.type
        <3>1. Runs(p, t)' = Runs(p, t) \cup {n}
            BY <1>4, <2>2
        <3> QED
            BY <1>3, <1>5, <2>2, <3>1 DEF Cut
    <2> QED
        BY <2>1, <2>2
<1>8. \E i \in Runs(p, e.type)' : ran'[p][i].id = e.id
    BY <1>3, <1>4
<1>9. e.type # "target" => TargetRan(p)' = TargetRan(p)
    BY <1>4 DEF TargetRan
<1>10. FatalRuns(p)' = FatalRuns(p) \cup (IF Fatal(e) THEN {n} ELSE {})
    BY <1>3 DEF FatalRuns
<1>11. \A i \in FatalRuns(p) : i < n /\ i \in Nat /\ ran'[p][i] = ran[p][i]
    BY <1>1, <1>3 DEF FatalRuns
<1>12. Fatal(e) /\ exit'[p] = ExitOf(e) => ExitInv(p)'
    <2> SUFFICES ASSUME Fatal(e), exit'[p] = ExitOf(e)
                 PROVE  ExitInv(p)'
        OBVIOUS
    <2>1. n \in FatalRuns(p)' /\ \A j \in FatalRuns(p)' : j <= n
        BY <1>3, <1>10, <1>11
    <2>2. exit'[p] = ExitOf(ran'[p][n])
        BY <1>3
    <2> QED
        BY <2>1, <2>2 DEF ExitInv, ExitOf
<1>13. ~Fatal(e) /\ exit'[p] = exit[p] => ExitInv(p)'
    BY <1>10, <1>11 DEF ExitInv, CallInv
<1>14. /\ Advised(p)' = Advised(p)
       /\ atLookup'[p] = atLookup[p]
       /\ Advised(p) => Grown(atLookup'[p], reg'.chains[chain'[p]])
    BY DEF Adds, fixed, Advised, CallInv, ChainInv
<1>15. \A t : t # e.type => Runs(p, t)' = Runs(p, t)
    BY <1>4
<1> QED
    BY <1>5, <1>6, <1>7, <1>8, <1>9, <1>12, <1>13, <1>14, <1>15

\* A list just loaded holds all advice that was attached at the lookup.
LEMMA LoadCovers ==
    ASSUME TypeOK, NEW p \in Calls, NEW type \in AdviceTypes, Advised(p), ChainInv(p),
           Load(p, type)
    PROVE  /\ pc'[p] = type
           /\ \A k \in DOMAIN atLookup[p][type] :
                 \E m \in DOMAIN todo'[p] : todo'[p][m].id = atLookup[p][type][k].id
<1>1. chain[p] \in 1..Len(reg.chains) /\ reg \in RegistryRecord
    BY DEF TypeOK, Advised, NoChain, RegistryRecord
<1> DEFINE loaded == reg.chains[chain[p]][type]
<1>2. PICK copy \in SortedCopies(loaded) : todo' = [todo EXCEPT ![p] = copy]
    BY DEF Load
<1>3. /\ loaded \in Seq(Advice)
      /\ \A k \in DOMAIN loaded : \E m \in DOMAIN copy : copy[m] = loaded[k]
    BY <1>1, LoadedType
<1>4. \A k \in DOMAIN atLookup[p][type] :
          k \in DOMAIN loaded /\ loaded[k] = atLookup[p][type][k]
    BY DEF ChainInv, Grown
<1> HIDE DEF loaded
<1>5. todo'[p] = copy /\ pc'[p] = type
    BY <1>2 DEF TypeOK, Load, Goto
<1> QED
    BY <1>3, <1>4, <1>5

\* A list that has run to its end has run all of them.
LEMMA ListDone ==
    ASSUME NEW p \in Calls, ListInv(p), pc[p] \in AdviceTypes, todo[p] = <<>>
    PROVE  RanAll(p, pc[p])
BY DEF ListInv, Covered, RanAll

\* A call that moves on without running anything, and does not start a list.
LEMMA QuietMove ==
    ASSUME NEW p \in Calls, CallInv(p), Quiet(p),
           \/ pc[p] = "Before" /\ pc'[p] = "target"
              /\ Passed(p, "Before") /\ Passed(p, "Around")
           \/ pc[p] = "Around" /\ pc'[p] = "target" /\ RanAll(p, "Around")
           \/ pc[p] = "Around" /\ pc'[p] = "completed"
           \/ pc[p] = "completed" /\ pc'[p] = "recover"
           \/ pc[p] = "recover" /\ pc'[p] = "cleanup"
           \/ pc[p] \in {"AfterReturning", "AfterThrowing"} /\ pc'[p] = Unwind(pc[p])
           \/ pc[p] = "After" /\ pc'[p] = "epilogue" /\ RanAll(p, "After")
    PROVE  CallInv(p)' /\ AnswerInv(p)'
<1> USE QuietKeeps DEF CallInv, AdviceTypes, Unwind
<1>1. ChainInv(p)'
    BY DEF ChainInv, Woven
<1>2. FreshInv(p)'
    BY DEF FreshInv, NothingRun, NotYetTarget, NotYetAfter
<1>3. ListInv(p)'
    BY DEF ListInv
<1>4. GuardInv(p)' /\ CleanupInv(p)'
    BY DEF GuardInv, CleanupInv, FreshInv, ListInv, Passed, NotYetTarget
<1>5. ExitInv(p)' /\ AnswerInv(p)'
    BY DEF AnswerInv, Done
<1> QED
    BY <1>1, <1>2, <1>3, <1>4, <1>5

\* A call that starts the list of some type.
LEMMA QuietLoad ==
    ASSUME TypeOK, NEW p \in Calls, CallInv(p), Quiet(p),
           NEW type \in AdviceTypes, Load(p, type),
           \/ pc[p] = "found" /\ type = "Before"
           \/ pc[p] = "Before" /\ type = "Around" /\ Passed(p, "Before")
           \/ pc[p] = "completed" /\ type = "AfterReturning"
           \/ pc[p] = "recover" /\ type = "AfterThrowing"
           \/ pc[p] = "cleanup" /\ type = "After"
    PROVE  CallInv(p)' /\ AnswerInv(p)'
<1>1. Advised(p) /\ ChainInv(p)
    BY DEF CallInv, ChainInv, Woven, AdviceTypes
<1>2. /\ pc'[p] = type
      /\ \A k \in DOMAIN atLookup[p][type] :
            \E m \in DOMAIN todo'[p] : todo'[p][m].id = atLookup[p][type][k].id
    BY <1>1, LoadCovers
<1>3. pc[p] = "found" => \A t : Runs(p, t) = {} /\ ~Cut(p, t)
    BY DEF CallInv, FreshInv, NothingRun, Runs, Cut
<1>4. Runs(p, "Around") = {} => ~Cut(p, "Around")
    BY DEF Cut
<1>5. Runs(p, "After") = {} => ~Cut(p, "After")
    BY DEF Cut
<1> USE QuietKeeps, <1>2 DEF CallInv
<1>6. ChainInv(p)'
    BY <1>1 DEF ChainInv, AdviceTypes
<1>7. FreshInv(p)'
    BY <1>3 DEF FreshInv, NothingRun, NotYetTarget, NotYetAfter, AdviceTypes, TargetRan
<1>8. ListInv(p)'
    BY <1>3, <1>4, <1>5 DEF ListInv, Covered, FreshInv, NotYetAfter
<1>9. GuardInv(p)' /\ CleanupInv(p)'
    BY <1>3 DEF GuardInv, CleanupInv, FreshInv, NotYetTarget, Passed, TargetRan
<1>10. ExitInv(p)' /\ AnswerInv(p)'
    BY DEF AnswerInv, Done, AdviceTypes
<1> QED
    BY <1>6, <1>7, <1>8, <1>9, <1>10

\* The handler at the head of p's list is run.
LEMMA CallAdds ==
    ASSUME TypeOK, NEW p \in Calls, NEW outcome, Call(p, outcome)
    PROVE  \E e : /\ Adds(p, e) /\ e.type = pc[p] /\ e.outcome = outcome
                  /\ e.id = Head(todo[p]).id /\ e.priority = Head(todo[p]).priority
<1> DEFINE e == [type |-> pc[p], priority |-> Head(todo[p]).priority,
                 id |-> Head(todo[p]).id, outcome |-> outcome]
<1>1. /\ pc[p] \in AdviceTypes /\ todo[p] # <<>>
      /\ outcome \in {"ok", "error", "panic", "goexit"}
    BY CallType
<1>2. e \in RunRecord
    BY <1>1, ListType DEF RunRecord, Phases
<1>3. Adds(p, e)
    BY <1>2 DEF Adds, Call, Record
<1>4. /\ e.type = pc[p] /\ e.outcome = outcome
      /\ e.id = Head(todo[p]).id /\ e.priority = Head(todo[p]).priority
    OBVIOUS
<1> HIDE DEF e
<1> QED
    BY <1>3, <1>4

\* A handler that ends its list.
LEMMA HandlerCuts ==
    ASSUME TypeOK, NEW p \in Calls, CallInv(p), pc[p] \in AdviceTypes, NEW e, Adds(p, e),
           e.type = pc[p], e.outcome # "ok", pc'[p] = Unwind(pc[p]), ExitInv(p)'
    PROVE  CallInv(p)' /\ AnswerInv(p)'
<1> USE AddsRecord DEF CallInv, AdviceTypes, Unwind
<1>1. pc'[p] \in {"recover", "cleanup", "epilogue"} /\ (pc'[p] = "epilogue" => pc[p] = "After")
    OBVIOUS
<1>2. ChainInv(p)'
    BY <1>1 DEF ChainInv, Woven
<1>3. FreshInv(p)'
    BY <1>1 DEF FreshInv, NothingRun, NotYetTarget, NotYetAfter
<1>4. ListInv(p)'
    BY <1>1 DEF ListInv
<1>5. GuardInv(p)'
    BY <1>1 DEF GuardInv, FreshInv, NotYetTarget, Passed
<1>6. CleanupInv(p)'
    BY <1>1 DEF CleanupInv
<1> QED
    BY <1>1, <1>2, <1>3, <1>4, <1>5, <1>6 DEF AnswerInv, Done

LEMMA HandlerReturnsKeeps ==
    ASSUME TypeOK, NEW p \in Calls, CallInv(p), HandlerReturns(p)
    PROVE  CallInv(p)' /\ AnswerInv(p)'
<1>1. Call(p, "ok") /\ todo' = [todo EXCEPT ![p] = Tail(@)] /\ UNCHANGED <<pc, exit>>
    BY DEF HandlerReturns
<1>2. PICK e : Adds(p, e) /\ e.type = pc[p] /\ e.outcome = "ok" /\ e.id = Head(todo[p]).id
    BY <1>1, CallAdds
<1>3. pc[p] \in AdviceTypes /\ todo[p] # <<>> /\ todo'[p] = Tail(todo[p])
    BY <1>1, CallType DEF TypeOK
<1>4. ~Fatal(e)
    BY <1>2 DEF Fatal
<1>5. \A m \in DOMAIN todo[p] :
         m = 1 \/ (m - 1 \in DOMAIN todo'[p] /\ todo'[p][m - 1] = todo[p][m])
    <2>1. \A m \in DOMAIN todo[p] :
             m = 1 \/ (m - 1 \in DOMAIN Tail(todo[p]) /\ Tail(todo[p])[m - 1] = todo[p][m])
        BY <1>3, ListType
    <2> QED
        BY <1>3, <2>1
<1> USE <1>1, <1>2, <1>3, AddsRecord DEF CallInv, AdviceTypes
<1>6. ChainInv(p)'
    BY DEF ChainInv
<1>7. FreshInv(p)'
    BY DEF FreshInv, NothingRun, NotYetTarget, NotYetAfter
<1>8. ListInv(p)'
    <2>1. ASSUME NEW k \in DOMAIN atLookup[p][pc[p]]
          PROVE  Covered(p, pc[p], k)'
        <3>1. Covered(p, pc[p], k)
            BY DEF ListInv
        <3>2. CASE \E i \in Runs(p, pc[p]) : ran[p][i].id = atLookup[p][pc[p]][k].id
            BY <3>2 DEF Covered
        <3>3. ASSUME NEW m \in DOMAIN todo[p], todo[p][m].id = atLookup[p][pc[p]][k].id
              PROVE  Covered(p, pc[p], k)'
            <4>1. CASE m = 1
                <5>1. e.id = atLookup'[p][pc[p]][k].id
                    BY <3>3, <4>1, ListType
                <5>2. PICK i \in Runs(p, e.type)' : ran'[p][i].id = e.id
                    OBVIOUS
                <5> QED
                    BY <5>1, <5>2 DEF Covered
            <4>2. CASE m # 1
                <5>1. m - 1 \in DOMAIN todo'[p] /\ todo'[p][m - 1] = todo[p][m]
                    BY <4>2, <1>5
                <5>2. todo'[p][m - 1].id = atLookup'[p][pc[p]][k].id
                    BY <3>3, <5>1
                <5> QED
                    BY <5>1, <5>2 DEF Covered
            <4> QED
                BY <4>1, <4>2
        <3> QED
            BY <3>1, <3>2, <3>3 DEF Covered
    <2> QED
        BY <2>1 DEF ListInv
<1>9. GuardInv(p)' /\ CleanupInv(p)'
    BY DEF GuardInv, CleanupInv, FreshInv, NotYetTarget, Passed
<1> QED
    BY <1>4, <1>6, <1>7, <1>8, <1>9 DEF AnswerInv, Done

LEMMA TargetAdds ==
    ASSUME TypeOK, NEW p \in Calls, NEW kind \in {"return", "panic", "goexit"}, NEW answer,
           RunTarget(p, kind, answer)
    PROVE  \E e : /\ Adds(p, e) /\ e.type = "target"
                  /\ e.outcome = IF kind = "return" THEN "ok" ELSE kind
<1> DEFINE e == [type |-> "target", priority |-> 0, id |-> "target",
                 outcome |-> IF kind = "return" THEN "ok" ELSE kind]
<1>1. e \in RunRecord
    BY DEF RunRecord, Phases
<1>2. Adds(p, e)
    BY <1>1 DEF Adds, RunTarget, Record
<1>3. e.type = "target" /\ e.outcome = IF kind = "return" THEN "ok" ELSE kind
    OBVIOUS
<1> HIDE DEF e
<1> QED
    BY <1>2, <1>3

\* The target is run.
LEMMA TargetKeeps ==
    ASSUME TypeOK, NEW p \in Calls, CallInv(p), NEW e, Adds(p, e), e.type = "target",
           ExitInv(p)',
           \/ pc[p] = "target" /\ pc'[p] \in {"completed", "recover"}
           \/ pc[p] = "bare" /\ pc'[p] = "epilogue"
    PROVE  CallInv(p)' /\ AnswerInv(p)'
<1> USE AddsRecord DEF CallInv
<1>1. ChainInv(p)'
    BY DEF ChainInv, Woven, AdviceTypes
<1>2. FreshInv(p)'
    BY DEF FreshInv, NothingRun, NotYetTarget, NotYetAfter
<1>3. ListInv(p)'
    BY DEF ListInv, AdviceTypes
<1>4. GuardInv(p)' /\ CleanupInv(p)'
    BY DEF GuardInv, CleanupInv, ChainInv, Passed
<1> QED
    BY <1>1, <1>2, <1>3, <1>4 DEF AnswerInv, Done

LEMMA UncheckedWrappers ==
    \A w \in DOMAIN Wrappers :
        ~Wrappers[w].checked => w \in {"Wrap0R", "Wrap0RE"} /\ Wrappers[w].override = "always"
<1> SUFFICES ASSUME NEW w \in DOMAIN Wrappers, ~Wrappers[w].checked
             PROVE  w \in {"Wrap0R", "Wrap0RE"} /\ Wrappers[w].override = "always"
    OBVIOUS
<1>1. w \in {"Wrap0", "Wrap0R", "Wrap0RE", "Wrap1", "Wrap1R", "Wrap1RE", "Wrap1E",
             "Wrap2", "Wrap2R", "Wrap2RE", "Wrap2E", "Wrap3RE"}
    BY DEF Wrappers
<1>2. CASE w = "Wrap1R"
    BY <1>2 DEF Wrappers, Wrap1R, Closure
<1>3. CASE w \in {"Wrap0", "Wrap1", "Wrap2"}
    BY <1>3 DEF Wrappers, Wrap0, Wrap1, Wrap2, Closure
<1>4. CASE w \in {"Wrap1RE", "Wrap2RE", "Wrap3RE"}
    BY <1>4 DEF Wrappers, Wrap1RE, Wrap2RE, Wrap3RE, Closure
<1>5. CASE w \in {"Wrap1E", "Wrap2E", "Wrap2R"}
    BY <1>5 DEF Wrappers, Wrap1E, Wrap2E, Wrap2R, Closure
<1>6. CASE w \in {"Wrap0R", "Wrap0RE"}
    <2>1. Wrap0R.override = "always" /\ Wrap0RE.override = "always"
        BY DEF Wrap0R, Wrap0RE, Closure
    <2> QED
        BY <1>6, <2>1 DEF Wrappers
<1> QED
    BY <1>1, <1>2, <1>3, <1>4, <1>5, <1>6

\* The epilogue gives the caller what the exit and the context call for.
LEMMA EpilogueKeeps ==
    ASSUME TypeOK, NEW p \in Calls, CallInv(p), Epilogue(p)
    PROVE  CallInv(p)' /\ AnswerInv(p)'
<1>1. /\ pc[p] = "epilogue" /\ pc'[p] = "done"
      /\ Quiet(p) /\ ctx' = ctx /\ wrapper' = wrapper
      /\ ret'[p] = CASE exit[p].kind # "return" ->
                          Answer(exit[p], Zero, Nil)
                     [] exit[p].kind = "return" /\ Override(p) \in ForeignValues
                            /\ ~Wrapper(p).checked ->
                          Answer(Panic("type assertion"), Zero, Nil)
                     [] OTHER ->
                          Answer(exit[p], CallerResult(p), CallerError(p))
    <2>1. Quiet(p) /\ ctx' = ctx /\ wrapper' = wrapper
        BY DEF Epilogue, Quiet, frame, fixed, history
    <2> QED
        BY <2>1 DEF Epilogue, TypeOK, Goto
<1> USE QuietKeeps DEF CallInv
<1>2. ChainInv(p)' /\ FreshInv(p)' /\ ListInv(p)' /\ GuardInv(p)' /\ CleanupInv(p)' /\ ExitInv(p)'
    BY <1>1 DEF ChainInv, Woven, FreshInv, NothingRun, NotYetTarget, NotYetAfter, ListInv,
                AdviceTypes, GuardInv, Passed, CleanupInv
<1>3. \A e : ExitOf(e).kind # "return" \/ ~Fatal(e)
    BY DEF ExitOf, Fatal, Goexit, Panic
<1>4. CASE FatalRuns(p) = {}
    <2>1. exit[p] = Returned /\ exit[p].kind = "return"
        BY <1>4 DEF ExitInv, Returned
    <2>2. CASE Override(p) \in ForeignValues /\ ~Wrapper(p).checked
        <3>1. wrapper[p] \in WrapperNames /\ WrapperNames \subseteq DOMAIN Wrappers
            BY WeaveAssumption DEF TypeOK
        <3>2. wrapper[p] \in {"Wrap0R", "Wrap0RE"} /\ Wrapper(p).override = "always"
            BY <2>2, <3>1, UncheckedWrappers DEF Wrapper
        <3>3. GetResult(ctx[p], 0) \in ForeignValues
            BY <2>2, <3>2 DEF Override
        <3>4. ret'[p] = Answer(Panic("type assertion"), Zero, Nil)
            BY <1>1, <2>1, <2>2
        <3> QED
            BY <1>1, <1>2, <1>4, <3>2, <3>3, <3>4 DEF AnswerInv
    <2>3. CASE ~(Override(p) \in ForeignValues /\ ~Wrapper(p).checked)
        <3>1. ret'[p] = Answer(exit[p], CallerResult(p), CallerError(p))
            BY <1>1, <2>1, <2>3
        <3>2. ret'[p].kind = "return"
            BY <2>1, <3>1 DEF Answer
        <3> QED
            BY <1>1, <1>2, <1>4, <3>2 DEF AnswerInv
    <2> QED
        BY <2>2, <2>3
<1>5. CASE FatalRuns(p) # {}
    <2>1. PICK i \in FatalRuns(p) :
              (\A j \in FatalRuns(p) : j <= i) /\ exit[p] = ExitOf(ran[p][i])
        BY <1>5 DEF ExitInv
    <2>2. exit[p].kind # "return"
        BY <1>3, <2>1 DEF FatalRuns
    <2>3. ret'[p] = Answer(exit[p], Zero, Nil)
        BY <1>1, <2>2
    <2>4. ret'[p] = Answer(ExitOf(ran'[p][i]), Zero, Nil)
        BY <1>1, <2>1, <2>3
    <2>5. FatalRuns(p)' # {} /\ i \in FatalRuns(p)' /\ \A j \in FatalRuns(p)' : j <= i
        BY <1>1, <1>5, <2>1
    <2> QED
        BY <1>2, <2>4, <2>5 DEF AnswerInv, ExitOf
<1> QED
    BY <1>2, <1>4, <1>5

LEMMA StepKeeps ==
    ASSUME TypeOK, NEW p \in Calls, CallInv(p), Step(p)
    PROVE  CallInv(p)' /\ AnswerInv(p)'
<1>1. CASE StartBefore(p)
    BY <1>1, QuietLoad DEF StartBefore, Quiet, history, AdviceTypes
<1>2. CASE FinishBefore(p)
    <2>1. pc[p] = "Before" /\ todo[p] = <<>> /\ Quiet(p) /\ "Before" \in AdviceTypes
        BY <1>2 DEF FinishBefore, Quiet, history, AdviceTypes
    <2>2. Passed(p, "Before")
        BY <2>1, ListDone DEF CallInv, ListInv, Passed
    <2>3. CASE HasAround(reg.chains[chain[p]])
        BY <1>2, <2>1, <2>2, <2>3, QuietLoad DEF FinishBefore, AdviceTypes
    <2>4. CASE ~HasAround(reg.chains[chain[p]])
        <3>1. Grown(atLookup[p], reg.chains[chain[p]]) /\ "Around" \in AdviceTypes
            BY <2>1 DEF CallInv, ChainInv, Woven, AdviceTypes
        <3>2. DOMAIN atLookup[p]["Around"] = {}
            BY <2>4, <3>1 DEF Grown, HasAround
        <3>3. Passed(p, "Around")
            BY <2>1, <3>2 DEF Passed, RanAll, Cut, CallInv, FreshInv
        <3>4. pc'[p] = "target"
            BY <1>2, <2>4 DEF FinishBefore, Goto, TypeOK
        <3> QED
            BY <2>1, <2>2, <3>3, <3>4, QuietMove
    <2> QED
        BY <2>3, <2>4
<1>3. CASE FinishAround(p)
    <2>1. pc[p] = "Around" /\ pc'[p] \in {"completed", "target"} /\ Quiet(p)
        BY <1>3 DEF FinishAround, Goto, TypeOK, Quiet, frame, history
    <2>2. RanAll(p, "Around")
        BY <1>3, <2>1, ListDone DEF FinishAround, CallInv, AdviceTypes
    <2> QED
        BY <2>1, <2>2, QuietMove
<1>4. CASE Complete(p)
    <2>1. pc[p] = "completed" /\ Quiet(p)
        BY <1>4 DEF Complete, Quiet, history
    <2>2. \/ Load(p, "AfterReturning")
          \/ pc'[p] = "recover"
        BY <1>4 DEF Complete, Goto, TypeOK
    <2> QED
        BY <2>1, <2>2, QuietLoad, QuietMove DEF AdviceTypes
<1>5. CASE Recover(p)
    <2>1. pc[p] = "recover" /\ Quiet(p)
        BY <1>5 DEF Recover, Quiet, history
    <2>2. \/ Load(p, "AfterThrowing")
          \/ pc'[p] = "cleanup"
        BY <1>5 DEF Recover, Goto, TypeOK
    <2> QED
        BY <2>1, <2>2, QuietLoad, QuietMove DEF AdviceTypes
<1>6. CASE StartAfter(p)
    BY <1>6, QuietLoad DEF StartAfter, Quiet, history, AdviceTypes
<1>7. CASE FinishList(p)
    <2>1. /\ pc[p] \in {"AfterReturning", "AfterThrowing", "After"} /\ todo[p] = <<>>
          /\ pc'[p] = Unwind(pc[p]) /\ Quiet(p)
        BY <1>7 DEF FinishList, Leave, Goto, TypeOK, Quiet, history
    <2>2. RanAll(p, pc[p])
        BY <2>1, ListDone DEF CallInv, AdviceTypes
    <2> QED
        BY <2>1, <2>2, QuietMove DEF Unwind
<1>8. CASE HandlerReturns(p)
    BY <1>8, HandlerReturnsKeeps
<1>9. CASE HandlerFails(p)
    <2>1. Call(p, "error") /\ pc[p] \in AdviceTypes
        BY <1>9, CallType DEF HandlerFails
    <2>2. /\ pc'[p] = Unwind(pc[p])
          /\ exit'[p] = CASE pc[p] = "Before" -> Panic("before advice failed")
                          [] pc[p] = "Around" -> Panic("around advice failed")
                          [] OTHER            -> exit[p]
        BY <1>9 DEF HandlerFails, Leave, Goto, TypeOK
    <2>3. PICK e : Adds(p, e) /\ e.type = pc[p] /\ e.outcome = "error"
        BY <2>1, CallAdds
    <2>4. \/ Fatal(e) /\ exit'[p] = ExitOf(e)
          \/ ~Fatal(e) /\ exit'[p] = exit[p]
        BY <2>2, <2>3 DEF Fatal, ExitOf
    <2>5. ExitInv(p)'
        BY <2>3, <2>4, AddsRecord
    <2> QED
        BY <2>1, <2>2, <2>3, <2>5, HandlerCuts
<1>10. CASE HandlerRaises(p)
    <2>1. Call(p, "panic") /\ pc[p] \in AdviceTypes
        BY <1>10, CallType DEF HandlerRaises
    <2>2. pc'[p] = Unwind(pc[p]) /\ exit'[p] = Panic(pc[p])
        BY <1>10 DEF HandlerRaises, Leave, Goto, TypeOK
    <2>3. PICK e : Adds(p, e) /\ e.type = pc[p] /\ e.outcome = "panic"
        BY <2>1, CallAdds
    <2>4. Fatal(e) /\ exit'[p] = ExitOf(e)
        BY <2>2, <2>3 DEF Fatal, ExitOf
    <2>5. ExitInv(p)'
        BY <2>3, <2>4, AddsRecord
    <2> QED
        BY <2>1, <2>2, <2>3, <2>5, HandlerCuts
<1>11. CASE HandlerExits(p)
    <2>1. Call(p, "goexit") /\ pc[p] \in AdviceTypes
        BY <1>11, CallType DEF HandlerExits
    <2>2. pc'[p] = Unwind(pc[p]) /\ exit'[p] = Goexit
        BY <1>11 DEF HandlerExits, Leave, Goto, TypeOK
    <2>3. PICK e : Adds(p, e) /\ e.type = pc[p] /\ e.outcome = "goexit"
        BY <2>1, CallAdds
    <2>4. Fatal(e) /\ exit'[p] = ExitOf(e)
        BY <2>2, <2>3 DEF Fatal, ExitOf
    <2>5. ExitInv(p)'
        BY <2>3, <2>4, AddsRecord
    <2> QED
        BY <2>1, <2>2, <2>3, <2>5, HandlerCuts
<1>12. CASE TargetReturns(p)
    <2>1. PICK answer : RunTarget(p, "return", answer)
        BY <1>12 DEF TargetReturns
    <2>2. /\ pc[p] \in {"target", "bare"} /\ exit' = exit
          /\ pc'[p] = IF pc[p] = "bare" THEN "epilogue" ELSE "completed"
        BY <1>12, <2>1 DEF TargetReturns, RunTarget, Goto, TypeOK
    <2>3. PICK e : Adds(p, e) /\ e.type = "target" /\ e.outcome = "ok"
        BY <2>1, TargetAdds
    <2>4. ExitInv(p)'
        BY <2>2, <2>3, AddsRecord DEF Fatal
    <2> QED
        BY <2>2, <2>3, <2>4, TargetKeeps
<1>13. ASSUME NEW kind \in {"panic", "goexit"}, NEW x, TargetThrows(p, kind, x),
              x = IF kind = "panic" THEN Panic("target") ELSE Goexit
       PROVE  CallInv(p)' /\ AnswerInv(p)'
    <2>1. PICK answer : RunTarget(p, kind, answer)
        BY <1>13 DEF TargetThrows
    <2>2. pc[p] \in {"target", "bare"} /\ exit'[p] = x /\ pc'[p] = Unwind(pc[p])
        BY <1>13, <2>1 DEF TargetThrows, RunTarget, Goto, TypeOK
    <2>3. PICK e : Adds(p, e) /\ e.type = "target" /\ e.outcome = kind
        BY <2>1, TargetAdds
    <2>4. Fatal(e) /\ x = ExitOf(e)
        BY <1>13, <2>3 DEF Fatal, ExitOf
    <2>5. ExitInv(p)'
        BY <2>2, <2>3, <2>4, AddsRecord
    <2>6. \/ pc[p] = "target" /\ pc'[p] \in {"completed", "recover"}
          \/ pc[p] = "bare" /\ pc'[p] = "epilogue"
        BY <2>2 DEF Unwind
    <2> QED
        BY <2>3, <2>5, <2>6, TargetKeeps
<1>14. CASE TargetPanics(p) \/ TargetExits(p)
    BY <1>13, <1>14 DEF TargetPanics, TargetExits
<1>15. CASE Epilogue(p)
    BY <1>15, EpilogueKeeps
<1> QED
    BY <1>1, <1>2, <1>3, <1>4, <1>5, <1>6, <1>7, <1>8, <1>9, <1>10, <1>11, <1>12, <1>14, <1>15
    DEF Step

LEMMA InvokeKeeps ==
    ASSUME TypeOK, NEW p \in Calls, CallInv(p), NEW name \in Names, Invoke(p, name)
    PROVE  CallInv(p)' /\ AnswerInv(p)'
<1> DEFINE found == GetAdviceChain(reg, name, Lookup(reg, name)).reply
<1>1. /\ pc[p] = "idle" /\ chain[p] = NoChain /\ ran[p] = <<>>
      /\ UNCHANGED <<reg, ran, exit>>
    BY DEF Invoke, frame, history, CallInv, ChainInv, Advised, FreshInv, NothingRun
<1>2. ran'[p] = <<>> /\ exit'[p] = exit[p] /\ FatalRuns(p)' = FatalRuns(p)
      /\ \A t : Runs(p, t)' = {}
    BY <1>1 DEF FatalRuns, Runs
<1>3. \/ pc'[p] = "bare" /\ chain'[p] = NoChain
      \/ /\ pc'[p] = "found" /\ chain'[p] = found.chain /\ found.chain # NoChain
         /\ atLookup'[p] = reg.chains[found.chain]
    BY <1>1 DEF Invoke, Goto, TypeOK, GetAdviceChain, Result, Ok, Failed
<1> HIDE DEF found
<1>4. ChainInv(p)'
    BY <1>1, <1>3 DEF ChainInv, Woven, AdviceTypes, Advised, Grown
<1>5. FreshInv(p)'
    BY <1>2, <1>3 DEF FreshInv, NotYetTarget
<1>6. ListInv(p)' /\ CleanupInv(p)' /\ AnswerInv(p)'
    BY <1>3 DEF ListInv, AdviceTypes, CleanupInv, AnswerInv, Done
<1>7. GuardInv(p)'
    BY <1>2, <1>3 DEF GuardInv, TargetRan
<1>8. ExitInv(p)'
    BY <1>1, <1>2 DEF CallInv, ExitInv
<1> QED
    BY <1>4, <1>5, <1>6, <1>7, <1>8 DEF CallInv

-----------------------------------------------------------------------------
(* The theorems.                                                           *)

LEMMA InitInv == Init => IInv
<1> SUFFICES ASSUME Init, NEW p \in Calls
             PROVE  CallInv(p) /\ AnswerInv(p)
    BY InitType DEF IInv
<1>1. pc[p] = "idle" /\ chain[p] = NoChain /\ ran[p] = <<>> /\ exit[p] = Returned
    BY DEF Init
<1>2. FatalRuns(p) = {} /\ \A t : Runs(p, t) = {}
    BY <1>1 DEF FatalRuns, Runs
<1> QED
    BY <1>1, <1>2 DEF CallInv, ChainInv, Woven, AdviceTypes, Advised, FreshInv, NotYetTarget,
                      ListInv, GuardInv, TargetRan, CleanupInv, ExitInv, AnswerInv, Done

LEMMA NextInv == IInv /\ [Next]_vars => IInv'
<1> SUFFICES ASSUME IInv, [Next]_vars
             PROVE  IInv'
    OBVIOUS
<1>1. TypeOK /\ \A q \in Calls : CallInv(q) /\ AnswerInv(q)
    BY DEF IInv
<1>2. ASSUME NEW p \in Calls, Step(p) \/ \E name \in Names : Invoke(p, name)
      PROVE  IInv'
    <2>1. TypeOK'
        BY <1>1, <1>2, StepType, InvokeType DEF CallInv
    <2>2. CallInv(p)' /\ AnswerInv(p)'
        BY <1>1, <1>2, StepKeeps, InvokeKeeps
    <2>3. ASSUME NEW q \in Calls, q # p
          PROVE  CallInv(q)' /\ AnswerInv(q)'
        BY <1>1, <1>2, <2>3, OthersUntouched, UntouchedKept
    <2> QED
        BY <2>1, <2>2, <2>3 DEF IInv
<1>3. CASE Environment
    BY <1>1, <1>3, EnvironmentType, EnvironmentKeeps, UntouchedKept DEF IInv
<1>4. CASE UNCHANGED vars
    <2>1. TypeOK'
        BY <1>1, <1>4 DEF TypeOK, vars, frame, fixed, history
    <2> QED
        BY <1>1, <1>4, <2>1, StutterKeeps, UntouchedKept DEF IInv
<1> QED
    BY <1>2, <1>3, <1>4 DEF Next

LEMMA WeaveInvariance == Spec => []IInv
BY InitInv, NextInv, PTL DEF Spec

\* Type correctness of executeWithAdvice for any number of calls, for every
\* wrapper and every behaviour of handlers and targets.
THEOREM WeaveTypeCorrect == Spec => []TypeOK
<1>1. IInv => TypeOK
    BY DEF IInv
<1> QED
    BY <1>1, WeaveInvariance, PTL

\* A target never runs past its guards: whatever other goroutines do to the
\* registry meanwhile, every Before and Around handler attached by the time of
\* the call has returned nil before the target runs.
THEOREM GuardsHold == Spec => []TargetGuarded
<1>1. IInv => TargetGuarded
    BY DEF IInv, TargetGuarded, CallInv, GuardInv, Passed
<1> QED
    BY <1>1, WeaveInvariance, PTL

\* However a call of a registered function ends, its After advice has been run,
\* up to the first After handler that failed.
THEOREM CleanupHappens == Spec => []CleanupAttempted
<1>1. IInv => CleanupAttempted
    BY DEF IInv, CleanupAttempted, CallInv, CleanupInv
<1> QED
    BY <1>1, WeaveInvariance, PTL

\* Through recover and re-panic, through errors that become panics and handlers
\* that fail while a panic is raised: the caller gets the last fatal outcome,
\* and a normal return if there was none.
THEOREM FailuresReachTheCaller == Spec => []LastFailureWins
<1>1. IInv => LastFailureWins
    BY DEF IInv, LastFailureWins, AnswerInv
<1> QED
    BY <1>1, WeaveInvariance, PTL

-----------------------------------------------------------------------------
(* Calls terminate: a measure that falls with every step of a call.        *)

\* How far a call has come.
Stage(place) ==
    CASE place = "idle"              -> 0
      [] place \in {"found", "bare"} -> 1
      [] place = "Before"            -> 2
      [] place = "Around"            -> 3
      [] place = "target"            -> 4
      [] place = "completed"         -> 5
      [] place = "AfterReturning"    -> 6
      [] place = "recover"           -> 7
      [] place = "AfterThrowing"     -> 8
      [] place = "cleanup"           -> 9
      [] place = "After"             -> 10
      [] place = "epilogue"          -> 11
      [] OTHER                       -> 12

\* p goes on to a later stage, or has one handler less to run in the one it is in.
Closer(p) ==
    \/ Stage(pc[p]) < Stage(pc'[p])
    \/ pc'[p] = pc[p] /\ Len(todo'[p]) < Len(todo[p])

LEMMA LeaveCloser ==
    ASSUME TypeOK, NEW p \in Calls, NEW e, Leave(p, e), pc[p] \in AdviceTypes
    PROVE  Closer(p)
BY DEF TypeOK, Leave, Goto, Unwind, Closer, Stage, AdviceTypes

LEMMA StepCloser ==
    ASSUME TypeOK, NEW p \in Calls, Step(p)
    PROVE  Closer(p)
<1> USE DEF Closer, Stage, Goto, TypeOK
<1>1. CASE StartBefore(p) \/ FinishBefore(p) \/ Complete(p) \/ StartAfter(p)
    BY <1>1 DEF StartBefore, FinishBefore, Complete, StartAfter, Load
<1>2. CASE FinishAround(p) \/ Epilogue(p)
    <2>1. CASE FinishAround(p)
        <3>1. pc[p] = "Around" /\ pc'[p] \in {"completed", "target"}
            BY <2>1 DEF FinishAround
        <3> QED
            BY <3>1
    <2>2. CASE Epilogue(p)
        <3>1. pc[p] = "epilogue" /\ pc'[p] = "done"
            BY <2>2 DEF Epilogue
        <3> QED
            BY <3>1
    <2> QED
        BY <1>2, <2>1, <2>2
<1>3. CASE Recover(p)
    BY <1>3 DEF Recover, Load
<1>4. CASE FinishList(p)
    BY <1>4, LeaveCloser DEF FinishList, AdviceTypes
<1>5. CASE HandlerReturns(p)
    <2>1. todo[p] \in Seq(Advice) /\ todo[p] # <<>>
        BY <1>5 DEF HandlerReturns, Call
    <2>2. Len(Tail(todo[p])) < Len(todo[p])
        BY <2>1
    <2> QED
        BY <1>5, <2>2 DEF HandlerReturns
<1>6. CASE HandlerFails(p) \/ HandlerRaises(p) \/ HandlerExits(p)
    BY <1>6, LeaveCloser DEF HandlerFails, HandlerRaises, HandlerExits, Call
<1>7. CASE TargetReturns(p)
    BY <1>7 DEF TargetReturns, RunTarget
<1>8. CASE TargetPanics(p) \/ TargetExits(p)
    BY <1>8 DEF TargetPanics, TargetExits, TargetThrows, RunTarget, Unwind
<1> QED
    BY <1>1, <1>2, <1>3, <1>4, <1>5, <1>6, <1>7, <1>8 DEF Step

\* No call runs for ever: every step brings it nearer to its end, and no step of
\* another goroutine takes it back, whatever is attached to its chain meanwhile:
\* executeAdviceList runs a copy, and no phase is entered twice.
THEOREM CallsTerminate ==
    Spec => [][\A p \in Calls :
                  /\ Step(p) => Closer(p)
                  /\ Closer(p) \/ UNCHANGED <<pc[p], todo[p]>>]_vars
<1>1. ASSUME IInv, Next, NEW p \in Calls
      PROVE  /\ Step(p) => Closer(p)
             /\ Closer(p) \/ UNCHANGED <<pc[p], todo[p]>>
    <2>1. TypeOK
        BY <1>1 DEF IInv
    <2>2. Step(p) => Closer(p)
        BY <2>1, StepCloser
    <2>3. ASSUME NEW name \in Names, Invoke(p, name) PROVE Closer(p)
        BY <2>1, <2>3 DEF Invoke, Goto, TypeOK, Closer, Stage
    <2>4. ASSUME NEW q \in Calls, q # p, Step(q) \/ \E name \in Names : Invoke(q, name)
          PROVE  UNCHANGED <<pc[p], todo[p]>>
        BY <2>1, <2>4, OthersUntouched DEF Untouched
    <2>5. Environment => UNCHANGED <<pc[p], todo[p]>>
        BY DEF Environment, frame
    <2>6. ASSUME NEW q \in Calls, Step(q) \/ \E name \in Names : Invoke(q, name)
          PROVE  Closer(p) \/ UNCHANGED <<pc[p], todo[p]>>
        BY <2>2, <2>3, <2>4, <2>6
    <2>7. Closer(p) \/ UNCHANGED <<pc[p], todo[p]>>
        BY <1>1, <2>5, <2>6 DEF Next
    <2> QED
        BY <2>2, <2>7
<1>2. IInv /\ [Next]_vars =>
          [\A p \in Calls :
              /\ Step(p) => Closer(p)
              /\ Closer(p) \/ UNCHANGED <<pc[p], todo[p]>>]_vars
    BY <1>1
<1> QED
    BY <1>2, WeaveInvariance, PTL DEF Spec
=============================================================================
