------------------------------ MODULE Registry ------------------------------
(***************************************************************************)
(* aspect/registry.go with its sync.RWMutex: goroutines call the methods of *)
(* one Registry.  A method takes the lock, looks its name up, acts on what *)
(* it found, and releases the lock in a defer, which also runs when the    *)
(* method panics.                                                          *)
(*                                                                         *)
(* The lock follows sync.RWMutex: a writer first takes the inner mutex and *)
(* so announces itself, which keeps new readers out; it enters when the    *)
(* readers that are inside have left.  Its Unlock lets in the readers that *)
(* wait by then, ahead of the next writer.                                 *)
(***************************************************************************)
EXTENDS RegistryMap

CONSTANTS
    Clients,        \* goroutines that call methods of the registry
    Operations,     \* the calls they make: records [method, name, advice]
    MaxGrowth       \* bound: calls per client that may allocate or append

ASSUME RegistryAssumption ==
    /\ Operations \subseteq [method : Methods, name : Names, advice : Advice]
    /\ MaxGrowth \in Nat

VARIABLES
    reg,
    pc,         \* "idle", "lock", "announced", "waiting", "locked", "found", "unlock"
    op,         \* the call a client makes
    found,      \* the pointer its lookup found
    reply,      \* the reply to it
    grown       \* how many of its calls may have allocated or appended

vars == <<reg, pc, op, found, reply, grown>>

Writes(c) == op[c].method \in Writers

\* Inside the critical section.
Inside(c) == pc[c] \in {"locked", "found", "unlock"}

\* Some writer holds the inner mutex of the RWMutex.
WriterAnnounced == \E c \in Clients : Writes(c) /\ (pc[c] = "announced" \/ Inside(c))

ReaderInside == \E c \in Clients : ~Writes(c) /\ Inside(c)

Init ==
    /\ reg = NewRegistry
    /\ pc = [c \in Clients |-> "idle"]
    /\ op = [c \in Clients |-> NoCall]
    /\ found = [c \in Clients |-> NoChain]
    /\ reply = [c \in Clients |-> Ok]
    /\ grown = [c \in Clients |-> 0]

Goto(c, place) == pc' = [pc EXCEPT ![c] = place]

Growing(o) == o.method \in Writers \ {"Unregister", "Clear"}

Call(c) ==
    /\ pc[c] = "idle"
    /\ Goto(c, "lock")
    /\ \E o \in Operations :
          /\ Growing(o) => grown[c] < MaxGrowth
          /\ op' = [op EXCEPT ![c] = o]
          /\ grown' = [grown EXCEPT ![c] = IF Growing(o) THEN @ + 1 ELSE @]
    /\ UNCHANGED <<reg, found, reply>>

-----------------------------------------------------------------------------
(* sync.RWMutex.                                                           *)

\* Faulty: two writers can be inside.
AnnounceUnguarded(c) ==
    /\ pc[c] = "lock" /\ Writes(c)
    /\ Goto(c, "announced")
    /\ UNCHANGED <<reg, op, found, reply, grown>>

\* Lock, first part: take the inner mutex.
Announce(c) ==
    /\ pc[c] = "lock" /\ Writes(c)
    /\ ~WriterAnnounced
    /\ Goto(c, "announced")
    /\ UNCHANGED <<reg, op, found, reply, grown>>

\* Lock, second part: wait for the readers inside.
Lock(c) ==
    /\ pc[c] = "announced"
    /\ ~ReaderInside
    /\ Goto(c, "locked")
    /\ UNCHANGED <<reg, op, found, reply, grown>>

\* Faulty: a reader enters beside a writer.
RLockBarging(c) ==
    /\ pc[c] = "lock" /\ ~Writes(c)
    /\ Goto(c, "locked")
    /\ UNCHANGED <<reg, op, found, reply, grown>>

\* RLock: enter, or wait for the writer that is announced.
RLock(c) ==
    /\ pc[c] = "lock" /\ ~Writes(c)
    /\ Goto(c, IF WriterAnnounced THEN "waiting" ELSE "locked")
    /\ UNCHANGED <<reg, op, found, reply, grown>>

\* Faulty: the method panics past an Unlock that is not deferred, and the readers
\* that wait are not let in.
UnlockNotDeferred(c) ==
    /\ pc[c] = "unlock"
    /\ pc' = [d \in Clients |->
                CASE d = c -> "idle"
                  [] d # c /\ Writes(c) /\ pc[d] = "waiting" /\ reply[c].error # "panic" -> "locked"
                  [] OTHER -> pc[d]]
    /\ op' = [op EXCEPT ![c] = NoCall]
    /\ found' = [found EXCEPT ![c] = NoChain]
    /\ reply' = [reply EXCEPT ![c] = Ok]
    /\ UNCHANGED <<reg, grown>>

\* The deferred RUnlock or Unlock, and the return or the panic that follows; the
\* call's local state is gone.
Unlock(c) ==
    /\ pc[c] = "unlock"
    /\ pc' = [d \in Clients |->
                CASE d = c -> "idle"
                  [] d # c /\ Writes(c) /\ pc[d] = "waiting" -> "locked"
                  [] OTHER -> pc[d]]
    /\ op' = [op EXCEPT ![c] = NoCall]
    /\ found' = [found EXCEPT ![c] = NoChain]
    /\ reply' = [reply EXCEPT ![c] = Ok]
    /\ UNCHANGED <<reg, grown>>

-----------------------------------------------------------------------------
(* The critical section.                                                   *)

LookUp(c) ==
    /\ pc[c] = "locked" /\ op[c].method \in Lookups
    /\ found' = [found EXCEPT ![c] = Lookup(reg, op[c].name)]
    /\ Goto(c, "found")
    /\ UNCHANGED <<reg, op, reply, grown>>

Act(c) ==
    LET result == Apply(reg, op[c], found[c])
    IN  /\ pc[c] = "found" \/ (pc[c] = "locked" /\ op[c].method \notin Lookups)
        /\ reg' = result.reg
        /\ reply' = [reply EXCEPT ![c] = result.reply]
        /\ Goto(c, "unlock")
        /\ UNCHANGED <<op, found, grown>>

-----------------------------------------------------------------------------

Next ==
    \E c \in Clients :
        \/ Call(c) \/ Announce(c) \/ Lock(c) \/ RLock(c)
        \/ LookUp(c) \/ Act(c) \/ Unlock(c)

\* Go runs every goroutine that can run, and sync.Mutex hands the inner mutex to
\* a goroutine that has waited for long (its starvation mode).
Fairness ==
    \A c \in Clients :
        /\ SF_vars(Announce(c))
        /\ WF_vars(Lock(c) \/ RLock(c) \/ LookUp(c) \/ Act(c) \/ Unlock(c))

Spec == Init /\ [][Next]_vars /\ Fairness

-----------------------------------------------------------------------------
(* Properties.                                                             *)

TypeOK ==
    /\ reg \in RegistryRecord
    /\ pc \in [Clients -> {"idle", "lock", "announced", "waiting", "locked", "found", "unlock"}]
    /\ op \in [Clients -> Operations \cup {NoCall}]
    /\ found \in [Clients -> Nat]
    /\ \A c \in Clients : found[c] \in 0..Len(reg.chains)
    /\ reply \in [Clients -> Reply]
    /\ grown \in [Clients -> 0..MaxGrowth]

\* The map and the chains are never touched by two goroutines at once if one of
\* them may write: Go would abort with "concurrent map writes".
NoDataRace ==
    \A c, d \in Clients : c # d /\ Inside(c) /\ Inside(d) => ~Writes(c) /\ ~Writes(d)

\* Two names never share a chain, and the empty name has none: advice attached
\* to one function never runs for another (Register, RegisterOrGet).
NoSharedChain == Unshared(reg)

\* A chain that Unregister or Clear has taken out of the map never comes back, not
\* even under the same name: advice attached through a pointer that RegisterOrGet or
\* GetAdviceChain handed out before never runs for what is registered later.
NoChainReused ==
    [][\A n \in Names :
          \/ Lookup(reg', n) \in {Lookup(reg, n), NoChain}
          \/ Lookup(reg', n) > Len(reg.chains)]_vars

\* The client cannot go on by itself.
Blocked(c) ==
    \/ pc[c] = "waiting"
    \/ pc[c] = "lock" /\ Writes(c) /\ WriterAnnounced
    \/ pc[c] = "announced" /\ ReaderInside

\* Nobody is stranded: who is blocked waits for a goroutine that is inside, or for
\* a writer that may enter, and never for a lock nobody will release, also after
\* RegisterOrGet has panicked inside it (line 52) or writers kept readers waiting.
NobodyStranded ==
    \A c \in Clients : Blocked(c) =>
        \E d \in Clients : Inside(d) \/ (pc[d] = "announced" /\ ~Blocked(d))

\* Every call of a method returns or panics: no goroutine waits for the lock for
\* ever, not even after a method panicked inside it (RegisterOrGet, line 56).
EveryCallReturns == \A c \in Clients : pc[c] # "idle" ~> pc[c] = "idle"

\* How far a call has come as its client sees it.
Status ==
    [c \in Clients |->
        CASE pc[c] = "idle"   -> "idle"
          [] pc[c] = "unlock" -> "replied"
          [] OTHER            -> "called"]

\* Every method is atomic: it takes effect when it acts on what it looked up.
Atomic == INSTANCE RegistryAtomic WITH status <- Status

ImplementsAtomic == Atomic!Spec
=============================================================================
