--------------------------- MODULE RegistryProofs ---------------------------
(***************************************************************************)
(* Proofs about module Registry, for any number of clients, any names and  *)
(* any calls: types, mutual exclusion, and that every method is atomic.    *)
(***************************************************************************)
EXTENDS Registry, RegistryMapProofs

LEMMA ApplyType ==
    ASSUME NEW r \in RegistryRecord, NEW o \in Operations, NEW chain \in 0..Len(r.chains)
    PROVE  WellDone(r, Apply(r, o, chain))
<1>1. o.method \in Methods /\ o.name \in Names /\ o.advice \in Advice
    BY RegistryAssumption
<1>2. /\ WellDone(r, Register(r, o.name, chain))
      /\ WellDone(r, RegisterOrGet(r, o.name, chain))
      /\ WellDone(r, MustRegister(r, o.name, chain))
    BY <1>1, RegisterType
<1>3. /\ WellDone(r, AddAdvice(r, o.name, o.advice, chain))
      /\ WellDone(r, MustAddAdvice(r, o.name, o.advice, chain))
    BY <1>1, AddAdviceType
<1>4. WellDone(r, Unregister(r, o.name)) /\ WellDone(r, Clear(r))
    BY <1>1, RemoveType
<1>5. /\ WellDone(r, GetAdviceChain(r, o.name, chain))
      /\ WellDone(r, IsRegistered(r, o.name, chain))
      /\ WellDone(r, GetAdviceCount(r, o.name, chain))
      /\ WellDone(r, ListRegistered(r))
      /\ WellDone(r, CountRegistered(r))
    BY <1>1, QueryType
<1> QED
    BY <1>1, <1>2, <1>3, <1>4, <1>5 DEF Apply, Methods, Lookups

\* The methods that take the read lock do not write.
LEMMA ReadersKeepRegistry ==
    ASSUME NEW r, NEW o \in Operations, NEW chain, o.method \notin Writers
    PROVE  Apply(r, o, chain).reg = r
<1>1. o.method \in {"GetAdviceChain", "IsRegistered", "GetAdviceCount", "ListRegistered", "Count"}
    BY RegistryAssumption DEF Methods, Lookups, Writers
<1> QED
    BY <1>1 DEF Apply, GetAdviceChain, IsRegistered, GetAdviceCount, ListRegistered,
                CountRegistered, Result

\* A method that acts on what it has just looked up keeps chains apart.
LEMMA UnsharedKept ==
    ASSUME NEW r \in RegistryRecord, NEW o \in Operations, Unshared(r)
    PROVE  Unshared(Apply(r, o, Lookup(r, o.name)).reg)
<1> DEFINE n == o.name
           chain == Lookup(r, n)
<1>1. o.method \in Methods /\ n \in Names
    BY RegistryAssumption
<1>2. /\ r \in [entries : [Names -> Nat], chains : Seq(AdviceChain)] /\ Len(r.chains) \in Nat
      /\ \A m \in Names : r.entries[m] \in 0..Len(r.chains)
    BY DEF RegistryRecord
<1>3. n # EmptyName => Unshared(WithNewChain(r, n))
    <2> SUFFICES ASSUME n # EmptyName PROVE Unshared(WithNewChain(r, n))
        OBVIOUS
    <2> DEFINE e == WithNewChain(r, n).entries
    <2>1. e = [r.entries EXCEPT ![n] = Len(r.chains) + 1]
        BY DEF WithNewChain
    <2>2. \A m \in Names : e[m] = IF m = n THEN Len(r.chains) + 1 ELSE r.entries[m]
        BY <1>1, <1>2, <2>1
    <2> HIDE DEF e
    <2>3. e[EmptyName] = NoChain
        BY <2>2, NamesAssumption DEF Unshared, Lookup
    <2>4. ASSUME NEW k \in Names, NEW m \in Names, e[k] # NoChain, e[m] # NoChain, k # m
          PROVE  e[k] # e[m]
        <3>1. CASE k # n /\ m # n
            BY <3>1, <2>2, <2>4 DEF Unshared, Registered, Lookup
        <3>2. CASE k = n \/ m = n
            BY <3>2, <2>2, <2>4, <1>2
        <3> QED
            BY <3>1, <3>2
    <2> QED
        BY <2>3, <2>4 DEF Unshared, Registered, Lookup, e
<1>4. Unshared(AddTo(r, chain, o.advice))
    <2>1. AddTo(r, chain, o.advice).entries = r.entries
        BY <1>2 DEF AddTo
    <2> QED
        BY <2>1 DEF Unshared, Registered, Lookup
<1>5. Unshared([r EXCEPT !.entries[n] = NoChain])
    <2> DEFINE e == [r EXCEPT !.entries[n] = NoChain].entries
    <2>1. \A m \in Names : e[m] = IF m = n THEN NoChain ELSE r.entries[m]
        BY <1>1, <1>2
    <2> HIDE DEF e
    <2>2. e[EmptyName] = NoChain
        BY <2>1, NamesAssumption DEF Unshared, Lookup
    <2>3. \A k, m \in Names : e[k] # NoChain /\ e[m] # NoChain /\ k # m => e[k] # e[m]
        BY <2>1 DEF Unshared, Registered, Lookup
    <2> QED
        BY <2>2, <2>3 DEF Unshared, Registered, Lookup, e
<1>6. Unshared([r EXCEPT !.entries = [m \in Names |-> NoChain]])
    <2>1. [r EXCEPT !.entries = [m \in Names |-> NoChain]].entries = [m \in Names |-> NoChain]
        BY <1>2
    <2> QED
        BY <2>1, NamesAssumption DEF Unshared, Registered, Lookup
<1>7. CASE o.method \in {"Register", "RegisterOrGet", "MustRegister"}
    BY <1>3, <1>7 DEF Apply, Register, RegisterOrGet, MustRegister, Must, Result, Failed, Ok
<1>8. CASE o.method \in {"AddAdvice", "MustAddAdvice"}
    BY <1>4, <1>8 DEF Apply, AddAdvice, MustAddAdvice, Must, Result, Failed, Ok
<1>9. CASE o.method \in {"Unregister", "Clear"}
    BY <1>5, <1>6, <1>9 DEF Apply, Unregister, Clear, Result
<1>10. CASE o.method \notin Writers
    BY <1>10, ReadersKeepRegistry
<1> QED
    BY <1>1, <1>7, <1>8, <1>9, <1>10 DEF Writers

\* A method leads a name to the chain it had, to none, or to one just made.
LEMMA OnlyNewChains ==
    ASSUME NEW r \in RegistryRecord, NEW o \in Operations, NEW chain, NEW n \in Names
    PROVE  LET e == Apply(r, o, chain).reg.entries[n]
           IN  e \in {r.entries[n], NoChain} \/ e > Len(r.chains)
<1>1. o.method \in Methods /\ o.name \in Names
    BY RegistryAssumption
<1>2. r.entries \in [Names -> Nat] /\ Len(r.chains) \in Nat
    BY DEF RegistryRecord
<1>3. CASE Apply(r, o, chain).reg = r
    BY <1>3
<1>4. CASE o.method \in {"Register", "RegisterOrGet", "MustRegister"}
    <2>1. Apply(r, o, chain).reg \in {r, WithNewChain(r, o.name)}
        BY <1>4 DEF Apply, Register, RegisterOrGet, MustRegister, Must, Result, Failed, Ok
    <2>2. WithNewChain(r, o.name).entries[n] = IF n = o.name THEN Len(r.chains) + 1
                                                             ELSE r.entries[n]
        BY <1>1, <1>2 DEF WithNewChain
    <2> QED
        BY <1>2, <2>1, <2>2
<1>5. CASE o.method \in {"AddAdvice", "MustAddAdvice"}
    <2>1. Apply(r, o, chain).reg \in {r, AddTo(r, chain, o.advice)}
        BY <1>5 DEF Apply, AddAdvice, MustAddAdvice, Must, Result, Failed, Ok
    <2>2. AddTo(r, chain, o.advice).entries = r.entries
        BY DEF AddTo, RegistryRecord
    <2> QED
        BY <2>1, <2>2
<1>6. CASE o.method = "Unregister"
    <2>1. Apply(r, o, chain).reg = [r EXCEPT !.entries[o.name] = NoChain]
        BY <1>6 DEF Apply, Unregister, Result
    <2>2. [r EXCEPT !.entries[o.name] = NoChain].entries[n] \in {r.entries[n], NoChain}
        BY <1>1, <1>2 DEF RegistryRecord
    <2> QED
        BY <2>1, <2>2
<1>7. CASE o.method = "Clear"
    <2>1. Apply(r, o, chain).reg = [r EXCEPT !.entries = [m \in Names |-> NoChain]]
        BY <1>7 DEF Apply, Clear, Result
    <2>2. [r EXCEPT !.entries = [m \in Names |-> NoChain]].entries[n] = NoChain
        BY DEF RegistryRecord
    <2> QED
        BY <2>1, <2>2
<1> QED
    BY <1>1, <1>3, <1>4, <1>5, <1>6, <1>7, ReadersKeepRegistry DEF Writers

-----------------------------------------------------------------------------
(* The inductive invariant.                                                *)

\* The client has the lock or, as a writer, has announced itself.
Claims(c) == pc[c] = "announced" \/ Inside(c)

\* A client that is not idle makes a call, and only writers announce themselves
\* and only readers wait for a writer.
CallsInv ==
    \A c \in Clients :
        /\ pc[c] # "idle" => op[c] \in Operations
        /\ pc[c] = "announced" => Writes(c)
        /\ pc[c] = "waiting" => ~Writes(c)

\* One writer at a time is announced or inside; with a writer inside there is no
\* reader inside.
LockInv ==
    /\ \A c, d \in Clients : c # d /\ Writes(c) /\ Writes(d) => ~(Claims(c) /\ Claims(d))
    /\ \A c, d \in Clients : Writes(c) /\ ~Writes(d) => ~(Inside(c) /\ Inside(d))

\* What a client has looked up is still true when it acts on it.
FreshInv ==
    \A c \in Clients : pc[c] = "found" => found[c] = Lookup(reg, op[c].name)

IInv == TypeOK /\ CallsInv /\ LockInv /\ FreshInv

LEMMA InitIInv == Init => IInv
<1> SUFFICES ASSUME Init PROVE IInv
    OBVIOUS
<1>1. NewRegistry \in RegistryRecord /\ Len(NewRegistry.chains) = 0
    BY DEF NewRegistry, RegistryRecord, NoChain
<1>2. TypeOK
    BY <1>1, ReplyTypes, RegistryAssumption DEF Init, TypeOK, NoChain
<1>3. CallsInv /\ LockInv /\ FreshInv
    BY DEF Init, CallsInv, LockInv, FreshInv, Claims, Inside
<1> QED
    BY <1>2, <1>3 DEF IInv

LEMMA NextTypeOK == IInv /\ [Next]_vars => TypeOK'
<1> SUFFICES ASSUME IInv, [Next]_vars PROVE TypeOK'
    OBVIOUS
<1> USE DEF IInv
<1>1. CASE UNCHANGED vars
    BY <1>1 DEF vars, TypeOK
<1>2. ASSUME NEW c \in Clients, Call(c) PROVE TypeOK'
    <2>1. PICK o \in Operations :
             /\ Growing(o) => grown[c] < MaxGrowth
             /\ op' = [op EXCEPT ![c] = o]
             /\ grown' = [grown EXCEPT ![c] = IF Growing(o) THEN @ + 1 ELSE @]
        BY <1>2 DEF Call
    <2>2. grown' \in [Clients -> 0..MaxGrowth]
        BY <2>1, RegistryAssumption DEF TypeOK
    <2>3. op' \in [Clients -> Operations \cup {NoCall}]
        BY <2>1 DEF TypeOK
    <2> QED
        BY <1>2, <2>2, <2>3 DEF Call, Goto, TypeOK
<1>3. ASSUME NEW c \in Clients, Announce(c) \/ Lock(c) \/ RLock(c) PROVE TypeOK'
    BY <1>3 DEF Announce, Lock, RLock, Goto, TypeOK
<1>4. ASSUME NEW c \in Clients, LookUp(c) PROVE TypeOK'
    <2>1. op[c] \in Operations
        BY <1>4 DEF LookUp, CallsInv
    <2>2. Lookup(reg, op[c].name) \in 0..Len(reg.chains)
        BY <2>1, RegistryAssumption DEF Lookup, TypeOK, RegistryRecord
    <2>3. Len(reg.chains) \in Nat
        BY DEF TypeOK, RegistryRecord
    <2> QED
        BY <1>4, <2>2, <2>3 DEF LookUp, Goto, TypeOK
<1>5. ASSUME NEW c \in Clients, Act(c) PROVE TypeOK'
    <2>1. op[c] \in Operations
        BY <1>5 DEF Act, CallsInv
    <2>2. WellDone(reg, Apply(reg, op[c], found[c]))
        BY <2>1, ApplyType DEF TypeOK
    <2>3. Len(reg.chains) \in Nat /\ Len(reg'.chains) \in Nat
        BY <1>5, <2>2 DEF Act, TypeOK, RegistryRecord, WellDone
    <2>4. reg' \in RegistryRecord /\ Len(reg'.chains) >= Len(reg.chains)
        BY <1>5, <2>2 DEF Act, WellDone
    <2>5. \A d \in Clients : found'[d] \in 0..Len(reg'.chains)
        BY <1>5, <2>3, <2>4 DEF Act, TypeOK
    <2>6. reply' \in [Clients -> Reply]
        BY <1>5, <2>2 DEF Act, TypeOK, WellDone
    <2> QED
        BY <1>5, <2>4, <2>5, <2>6 DEF Act, Goto, TypeOK
<1>6. ASSUME NEW c \in Clients, Unlock(c) PROVE TypeOK'
    <2>1. Len(reg.chains) \in Nat
        BY DEF TypeOK, RegistryRecord
    <2>2. pc' \in [Clients -> {"idle", "lock", "announced", "waiting", "locked", "found", "unlock"}]
        BY <1>6 DEF Unlock, TypeOK
    <2> QED
        BY <1>6, <2>1, <2>2, ReplyTypes DEF Unlock, TypeOK, NoChain
<1> QED
    BY <1>1, <1>2, <1>3, <1>4, <1>5, <1>6 DEF Next

LEMMA NextCallsInv == IInv /\ [Next]_vars => CallsInv'
<1> SUFFICES ASSUME IInv, [Next]_vars PROVE CallsInv'
    OBVIOUS
<1> USE DEF IInv, CallsInv, Writes
<1>1. CASE UNCHANGED vars
    BY <1>1 DEF vars
<1>2. ASSUME NEW c \in Clients, Call(c) PROVE CallsInv'
    BY <1>2 DEF Call, Goto, TypeOK
<1>3. ASSUME NEW c \in Clients, Announce(c) \/ Lock(c) \/ RLock(c) PROVE CallsInv'
    BY <1>3 DEF Announce, Lock, RLock, Goto, TypeOK
<1>4. ASSUME NEW c \in Clients, LookUp(c) \/ Act(c) PROVE CallsInv'
    BY <1>4 DEF LookUp, Act, Goto, TypeOK
<1>5. ASSUME NEW c \in Clients, Unlock(c) PROVE CallsInv'
    BY <1>5 DEF Unlock, TypeOK
<1> QED
    BY <1>1, <1>2, <1>3, <1>4, <1>5 DEF Next

LEMMA NextLockInv == IInv /\ [Next]_vars => LockInv'
<1> SUFFICES ASSUME IInv, [Next]_vars PROVE LockInv'
    OBVIOUS
<1> USE DEF IInv, LockInv, Claims, Inside
<1>0. NoCall.method \notin Writers
    BY DEF NoCall, Writers
<1>1. CASE UNCHANGED vars
    BY <1>1 DEF vars, Writes
<1>2. ASSUME NEW c \in Clients, Call(c) PROVE LockInv'
    BY <1>2 DEF Call, Goto, TypeOK, Writes
<1>3. ASSUME NEW c \in Clients, Announce(c) PROVE LockInv'
    BY <1>3 DEF Announce, WriterAnnounced, Goto, TypeOK, Writes
<1>4. ASSUME NEW c \in Clients, Lock(c) PROVE LockInv'
    BY <1>4 DEF Lock, ReaderInside, CallsInv, Goto, TypeOK, Writes
<1>5. ASSUME NEW c \in Clients, RLock(c) PROVE LockInv'
    BY <1>5 DEF RLock, WriterAnnounced, Goto, TypeOK, Writes
<1>6. ASSUME NEW c \in Clients, LookUp(c) \/ Act(c) PROVE LockInv'
    <2>1. \A d \in Clients :
             /\ Writes(d)' = Writes(d)
             /\ Inside(d)' = Inside(d)
             /\ (pc[d] = "announced")' = (pc[d] = "announced")
        BY <1>6 DEF LookUp, Act, Goto, TypeOK, Writes
    <2> QED
        BY <2>1
<1>7. ASSUME NEW c \in Clients, Unlock(c) PROVE LockInv'
    <2>1. /\ pc[c] = "unlock"
          /\ \A d \in Clients \ {c} : Writes(d)' = Writes(d)
          /\ ~Writes(c)' /\ pc'[c] = "idle"
        BY <1>7, <1>0 DEF Unlock, TypeOK, Writes
    <2>2. \A d \in Clients \ {c} :
             \/ pc'[d] = pc[d]
             \/ Writes(c) /\ ~Writes(d) /\ pc[d] = "waiting" /\ pc'[d] = "locked"
        BY <1>7 DEF Unlock, TypeOK, CallsInv
    <2> QED
        BY <2>1, <2>2
<1> QED
    BY <1>1, <1>2, <1>3, <1>4, <1>5, <1>6, <1>7 DEF Next

LEMMA NextFreshInv == IInv /\ [Next]_vars => FreshInv'
<1> SUFFICES ASSUME IInv, [Next]_vars PROVE FreshInv'
    OBVIOUS
<1> USE DEF IInv, FreshInv
<1>1. CASE UNCHANGED vars
    BY <1>1 DEF vars
<1>2. ASSUME NEW c \in Clients, Call(c) PROVE FreshInv'
    BY <1>2 DEF Call, Goto, TypeOK
<1>3. ASSUME NEW c \in Clients, Announce(c) \/ Lock(c) \/ RLock(c) PROVE FreshInv'
    BY <1>3 DEF Announce, Lock, RLock, Goto, TypeOK
<1>4. ASSUME NEW c \in Clients, LookUp(c) PROVE FreshInv'
    BY <1>4 DEF LookUp, Goto, TypeOK
\* A writer that acts is alone inside; a reader that acts changes nothing.
<1>5. ASSUME NEW c \in Clients, Act(c) PROVE FreshInv'
    <2>1. Inside(c) /\ op[c] \in Operations
        BY <1>5 DEF Act, Inside, CallsInv
    <2>2. CASE Writes(c)
        <3>1. \A d \in Clients : d # c => pc[d] # "found"
            BY <2>1, <2>2 DEF LockInv, Claims, Inside
        <3> QED
            BY <3>1, <1>5 DEF Act, Goto, TypeOK
    <2>3. CASE ~Writes(c)
        <3>1. reg' = reg
            BY <1>5, <2>1, <2>3, ReadersKeepRegistry DEF Act, Writes
        <3> QED
            BY <3>1, <1>5 DEF Act, Goto, TypeOK
    <2> QED
        BY <2>2, <2>3
<1>6. ASSUME NEW c \in Clients, Unlock(c) PROVE FreshInv'
    BY <1>6 DEF Unlock, TypeOK
<1> QED
    BY <1>1, <1>2, <1>3, <1>4, <1>5, <1>6 DEF Next

THEOREM Invariance == Spec => []IInv
<1>1. IInv /\ [Next]_vars => IInv'
    BY NextTypeOK, NextCallsInv, NextLockInv, NextFreshInv DEF IInv
<1> QED
    BY InitIInv, <1>1, PTL DEF Spec

-----------------------------------------------------------------------------
(* The theorems.                                                           *)

\* Every variable keeps its type: no pointer ever dangles, and every method
\* replies.
THEOREM TypeCorrect == Spec => []TypeOK
BY Invariance, PTL DEF IInv

\* The map and the chains are never touched by two goroutines at once if one of
\* them may write, for any number of goroutines.
THEOREM MutualExclusion == Spec => []NoDataRace
<1>1. IInv => NoDataRace
    BY DEF IInv, LockInv, Claims, NoDataRace
<1> QED
    BY Invariance, <1>1, PTL

\* Readers wait only while a writer is announced or inside: the Unlock of that
\* writer lets them in, and there is no other writer they could wait for.
WaitInv == \A c \in Clients : pc[c] = "waiting" => WriterAnnounced

LEMMA NextWaitInv == IInv /\ WaitInv /\ [Next]_vars => WaitInv'
<1> SUFFICES ASSUME IInv, WaitInv, [Next]_vars PROVE WaitInv'
    OBVIOUS
<1> USE DEF IInv, WaitInv, WriterAnnounced, Inside, Writes
<1>1. CASE UNCHANGED vars
    BY <1>1 DEF vars
<1>2. ASSUME NEW c \in Clients, Call(c) PROVE WaitInv'
    BY <1>2 DEF Call, Goto, TypeOK
<1>3. ASSUME NEW c \in Clients, Announce(c) \/ Lock(c) \/ LookUp(c) \/ Act(c) PROVE WaitInv'
    BY <1>3 DEF Announce, Lock, LookUp, Act, Goto, TypeOK
<1>4. ASSUME NEW c \in Clients, RLock(c) PROVE WaitInv'
    BY <1>4 DEF RLock, Goto, TypeOK
<1>5. ASSUME NEW c \in Clients, Unlock(c) PROVE WaitInv'
    <2>1. SUFFICES ASSUME NEW r \in Clients, pc'[r] = "waiting" PROVE WriterAnnounced'
        OBVIOUS
    <2>2. r # c /\ pc[r] = "waiting" /\ ~Writes(c)
        BY <1>5, <2>1 DEF Unlock, TypeOK
    <2>3. PICK w \in Clients : Writes(w) /\ (pc[w] = "announced" \/ Inside(w))
        BY <2>2
    <2>4. w # c /\ op'[w] = op[w] /\ pc'[w] = pc[w]
        BY <1>5, <2>2, <2>3 DEF Unlock, TypeOK
    <2> QED
        BY <2>3, <2>4
<1> QED
    BY <1>1, <1>2, <1>3, <1>4, <1>5 DEF Next

\* Whoever waits for the lock waits for a goroutine that can go on, for any number
\* of goroutines, also after a method has panicked inside its critical section.
THEOREM NoDeadlock == Spec => []NobodyStranded
<1>1. Init => WaitInv
    BY DEF Init, WaitInv
\* An announced writer waits for readers inside, or enters.
<1>2. ASSUME WriterAnnounced
      PROVE  \E d \in Clients : Inside(d) \/ (pc[d] = "announced" /\ ~Blocked(d))
    <2>1. PICK w \in Clients : Writes(w) /\ (pc[w] = "announced" \/ Inside(w))
        BY <1>2 DEF WriterAnnounced
    <2>2. CASE pc[w] = "announced" /\ ~ReaderInside
        BY <2>2 DEF Blocked
    <2>3. CASE ReaderInside
        BY <2>3 DEF ReaderInside
    <2> QED
        BY <2>1, <2>2, <2>3
<1>3. WaitInv => NobodyStranded
    BY <1>2 DEF WaitInv, NobodyStranded, Blocked, ReaderInside
<1> QED
    BY Invariance, NextWaitInv, <1>1, <1>3, PTL DEF Spec

\* A method acts on the registry as if it looked its name up in the same step.
LEMMA ActsOnTruth ==
    ASSUME IInv, NEW c \in Clients, Act(c)
    PROVE  Apply(reg, op[c], found[c]) = Apply(reg, op[c], Lookup(reg, op[c].name))
<1>1. CASE pc[c] = "found"
    BY <1>1 DEF IInv, FreshInv
<1>2. CASE op[c].method \notin Lookups /\ pc[c] = "locked"
    <2>1. op[c].method \in {"Unregister", "ListRegistered", "Clear", "Count"}
        BY <1>2, RegistryAssumption DEF IInv, CallsInv, Methods
    <2> QED
        BY <2>1 DEF Apply
<1> QED
    BY <1>1, <1>2 DEF Act

\* The methods and the constants of RegistryMap are the same in both modules.
LEMMA SameMethods ==
    /\ Atomic!NewRegistry = NewRegistry /\ Atomic!Ok = Ok /\ Atomic!NoCall = NoCall
    /\ \A r, name : Atomic!Lookup(r, name) = Lookup(r, name)
    /\ \A r, o, chain : Atomic!Apply(r, o, chain) = Apply(r, o, chain)
<1>1. /\ Atomic!NewRegistry = NewRegistry /\ Atomic!Ok = Ok /\ Atomic!NoCall = NoCall
      /\ \A r, name : Atomic!Lookup(r, name) = Lookup(r, name)
      /\ \A why : Atomic!Failed(why) = Failed(why)
      /\ \A r, reply_ : Atomic!Result(r, reply_) = Result(r, reply_)
      /\ \A r : Atomic!Registered(r) = Registered(r)
      /\ \A r, name : Atomic!WithNewChain(r, name) = WithNewChain(r, name)
      /\ Atomic!NoChain = NoChain
    BY DEF NewRegistry, Ok, NoCall, Lookup, Failed, Result, Registered, WithNewChain, NoChain,
           NewAdviceChain, AdviceTypes,
           Atomic!NewRegistry, Atomic!Ok, Atomic!NoCall, Atomic!Lookup, Atomic!Failed,
           Atomic!Result, Atomic!Registered, Atomic!WithNewChain, Atomic!NoChain,
           Atomic!NewAdviceChain, Atomic!AdviceTypes
<1>2. /\ \A r, name, chain : Atomic!Register(r, name, chain) = Register(r, name, chain)
      /\ \A r, name, chain : Atomic!RegisterOrGet(r, name, chain) = RegisterOrGet(r, name, chain)
      /\ \A r, name : Atomic!Unregister(r, name) = Unregister(r, name)
      /\ \A r : Atomic!Clear(r) = Clear(r)
    BY <1>1 DEF Register, RegisterOrGet, Unregister, Clear,
                Atomic!Register, Atomic!RegisterOrGet, Atomic!Unregister, Atomic!Clear
<1>3. /\ \A chain, a : Atomic!Add(chain, a) = Add(chain, a)
      /\ \A chain : Atomic!Count(chain) = Count(chain)
    BY DEF Add, Count, AdviceTypes, Atomic!Add, Atomic!Count, Atomic!AdviceTypes
<1>4. \A r, chain, a : Atomic!AddTo(r, chain, a) = AddTo(r, chain, a)
    BY <1>3 DEF AddTo, Atomic!AddTo
<1>5. \A r, name, a, chain : Atomic!AddAdvice(r, name, a, chain) = AddAdvice(r, name, a, chain)
    BY <1>1, <1>4 DEF AddAdvice, Atomic!AddAdvice
<1>6. \A result : Atomic!Must(result) = Must(result)
    BY <1>1 DEF Must, Atomic!Must
<1>7. /\ \A r, name, chain : Atomic!MustRegister(r, name, chain) = MustRegister(r, name, chain)
      /\ \A r, name, a, chain :
            Atomic!MustAddAdvice(r, name, a, chain) = MustAddAdvice(r, name, a, chain)
    BY <1>2, <1>5, <1>6 DEF MustRegister, MustAddAdvice, Atomic!MustRegister, Atomic!MustAddAdvice
<1>8. /\ \A r, name, chain : Atomic!GetAdviceChain(r, name, chain) = GetAdviceChain(r, name, chain)
      /\ \A r, name, chain : Atomic!IsRegistered(r, name, chain) = IsRegistered(r, name, chain)
      /\ \A r : Atomic!ListRegistered(r) = ListRegistered(r)
    BY <1>1 DEF GetAdviceChain, IsRegistered, ListRegistered,
                Atomic!GetAdviceChain, Atomic!IsRegistered, Atomic!ListRegistered
<1>9. \A r, name, chain : Atomic!GetAdviceCount(r, name, chain) = GetAdviceCount(r, name, chain)
    BY <1>1, <1>3 DEF GetAdviceCount, Atomic!GetAdviceCount
<1>10. \A r : Atomic!CountRegistered(r) = CountRegistered(r)
    BY <1>1 DEF CountRegistered, Atomic!CountRegistered, Cardinality, Atomic!Cardinality
<1>11. \A r, o, chain : Atomic!Apply(r, o, chain) = Apply(r, o, chain)
    <2> TAKE r, o, chain
    <2> DEFINE n == o.name
               a == o.advice
    <2>1. /\ Atomic!Register(r, n, chain) = Register(r, n, chain)
          /\ Atomic!RegisterOrGet(r, n, chain) = RegisterOrGet(r, n, chain)
          /\ Atomic!MustRegister(r, n, chain) = MustRegister(r, n, chain)
          /\ Atomic!AddAdvice(r, n, a, chain) = AddAdvice(r, n, a, chain)
          /\ Atomic!MustAddAdvice(r, n, a, chain) = MustAddAdvice(r, n, a, chain)
          /\ Atomic!GetAdviceChain(r, n, chain) = GetAdviceChain(r, n, chain)
          /\ Atomic!IsRegistered(r, n, chain) = IsRegistered(r, n, chain)
          /\ Atomic!GetAdviceCount(r, n, chain) = GetAdviceCount(r, n, chain)
          /\ Atomic!Unregister(r, n) = Unregister(r, n)
          /\ Atomic!ListRegistered(r) = ListRegistered(r)
          /\ Atomic!Clear(r) = Clear(r)
          /\ Atomic!CountRegistered(r) = CountRegistered(r)
        BY <1>2, <1>5, <1>7, <1>8, <1>9, <1>10
    <2> QED
        BY <2>1 DEF Apply, Atomic!Apply
<1> QED
    BY <1>1, <1>11

\* Every method is atomic, for any number of goroutines: a step of the locked
\* registry is a step of the atomic one or leaves it as it is.
THEOREM Atomicity == Spec => ImplementsAtomic
<1>1. Init => Atomic!Init
    BY SameMethods DEF Init, Atomic!Init, Status
<1>2. IInv /\ [Next]_vars => [Atomic!Next]_Atomic!vars
    <2> SUFFICES ASSUME IInv, [Next]_vars PROVE [Atomic!Next]_Atomic!vars
        OBVIOUS
    <2> USE DEF IInv
    <2>1. CASE UNCHANGED vars
        BY <2>1 DEF vars, Atomic!vars, Status
    <2>2. ASSUME NEW c \in Clients, Call(c) PROVE Atomic!Call(c)
        <3>1. Status[c] = "idle" /\ Status' = [Status EXCEPT ![c] = "called"]
            BY <2>2 DEF Call, Goto, Status, TypeOK
        <3> QED
            BY <2>2, <3>1 DEF Call, Atomic!Call
    <2>3. ASSUME NEW c \in Clients, Announce(c) \/ Lock(c) \/ RLock(c) \/ LookUp(c)
          PROVE  UNCHANGED Atomic!vars
        <3>1. Status' = Status
            BY <2>3 DEF Announce, Lock, RLock, LookUp, Goto, Status, TypeOK
        <3> QED
            BY <2>3, <3>1 DEF Announce, Lock, RLock, LookUp, Atomic!vars
    <2>4. ASSUME NEW c \in Clients, Act(c) PROVE Atomic!Perform(c)
        <3>1. Status[c] = "called" /\ Status' = [Status EXCEPT ![c] = "replied"]
            BY <2>4 DEF Act, Goto, Status, TypeOK
        <3>2. Apply(reg, op[c], found[c]) = Apply(reg, op[c], Lookup(reg, op[c].name))
            BY <2>4, ActsOnTruth
        <3> QED
            BY <2>4, <3>1, <3>2, SameMethods DEF Act, Atomic!Perform
    <2>5. ASSUME NEW c \in Clients, Unlock(c) PROVE Atomic!Return(c)
        <3>1. Status[c] = "replied" /\ Status' = [Status EXCEPT ![c] = "idle"]
            BY <2>5 DEF Unlock, Status, TypeOK
        <3> QED
            BY <2>5, <3>1, SameMethods DEF Unlock, Atomic!Return
    <2> QED
        BY <2>1, <2>2, <2>3, <2>4, <2>5 DEF Next, Atomic!Next
<1> QED
    BY Invariance, <1>1, <1>2, PTL DEF Spec, ImplementsAtomic, Atomic!Spec

\* Two names never share a chain, and the empty name has none: advice attached
\* to one function never runs for another.
THEOREM ChainsKeptApart == Spec => []NoSharedChain
<1>1. Init => NoSharedChain
    BY NamesAssumption DEF Init, NewRegistry, NoSharedChain, Unshared, Registered, Lookup
<1>2. IInv /\ NoSharedChain /\ [Next]_vars => NoSharedChain'
    <2> SUFFICES ASSUME IInv, NoSharedChain, [Next]_vars PROVE NoSharedChain'
        OBVIOUS
    <2>1. CASE reg' = reg
        BY <2>1 DEF NoSharedChain
    <2>2. ASSUME NEW c \in Clients, Act(c) PROVE NoSharedChain'
        <3>1. reg' = Apply(reg, op[c], Lookup(reg, op[c].name)).reg
            BY <2>2, ActsOnTruth DEF Act
        <3>2. op[c] \in Operations
            BY <2>2 DEF Act, IInv, CallsInv
        <3> QED
            BY <3>1, <3>2, UnsharedKept DEF NoSharedChain, IInv, TypeOK
    <2> QED
        BY <2>1, <2>2 DEF Next, vars, Call, Announce, Lock, RLock, LookUp, Unlock
<1> QED
    BY Invariance, <1>1, <1>2, PTL DEF Spec

\* A chain that was taken out of the map never comes back, whatever methods are
\* called in whatever order.
THEOREM ChainsNeverComeBack == Spec => NoChainReused
<1>1. IInv /\ [Next]_vars =>
          [\A n \in Names :
              \/ Lookup(reg', n) \in {Lookup(reg, n), NoChain}
              \/ Lookup(reg', n) > Len(reg.chains)]_vars
    <2> SUFFICES ASSUME IInv, Next, NEW n \in Names
                 PROVE  \/ Lookup(reg', n) \in {Lookup(reg, n), NoChain}
                        \/ Lookup(reg', n) > Len(reg.chains)
        BY DEF vars
    <2>1. CASE reg' = reg
        BY <2>1
    <2>2. ASSUME NEW c \in Clients, Act(c)
          PROVE  \/ Lookup(reg', n) \in {Lookup(reg, n), NoChain}
                 \/ Lookup(reg', n) > Len(reg.chains)
        <3>1. reg' = Apply(reg, op[c], found[c]).reg
            BY <2>2 DEF Act
        <3>2. op[c] \in Operations /\ reg \in RegistryRecord
            BY <2>2 DEF Act, IInv, CallsInv, TypeOK
        <3> QED
            BY <3>1, <3>2, OnlyNewChains DEF Lookup
    <2> QED
        BY <2>1, <2>2 DEF Next, Call, Announce, Lock, RLock, LookUp, Unlock
<1> QED
    BY Invariance, <1>1, PTL DEF Spec, NoChainReused
=============================================================================
