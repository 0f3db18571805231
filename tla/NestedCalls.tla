---------------------------- MODULE NestedCalls -----------------------------
(***************************************************************************)
(* Wrapped functions that use the library from inside: a handler or a      *)
(* target calls another wrapped function, as the success hook of           *)
(* 01_basic_usage does, or a method of the global registry.  Of a call     *)
(* only what can block is left: executeWithAdvice takes the read lock of   *)
(* the registry for its one lookup, and handlers and target run after it   *)
(* has been released.                                                      *)
(*                                                                         *)
(* sync.RWMutex is not reentrant: a reader that waits for an announced     *)
(* writer while it holds the read lock itself, or a writer that does,      *)
(* waits for ever.  The lock is that of module Registry; what it guards is *)
(* left out.                                                               *)
(***************************************************************************)
EXTENDS Integers

CONSTANTS
    Goroutines,
    MaxDepth        \* bound: wrapped calls that one goroutine is inside

ASSUME NestedCallsAssumption == MaxDepth \in Nat \ {0}

VARIABLES
    pc,         \* "user": in code of the library's client, at the top or in a call;
                \* "lock", "waiting", "announced", "locked": in a method of the registry
    op,         \* why it is there: the lookup of a wrapped call, a read or a write
    depth       \* the wrapped calls whose handlers or target it is in

vars == <<pc, op, depth>>

Init ==
    /\ pc = [g \in Goroutines |-> "user"]
    /\ op = [g \in Goroutines |-> "read"]
    /\ depth = [g \in Goroutines |-> 0]

Goto(g, place) == pc' = [pc EXCEPT ![g] = place]

-----------------------------------------------------------------------------
(* Who has the lock.                                                       *)

WriterAnnounced ==
    \E g \in Goroutines : op[g] = "write" /\ pc[g] \in {"announced", "locked"}

\* Faulty: a call keeps the read lock while its handlers and its target run, so that
\* no list of its chain can change under it.
HoldsReadThroughout(g) ==
    depth[g] > 0 \/ (pc[g] = "locked" /\ op[g] # "write")

HoldsRead(g) == pc[g] = "locked" /\ op[g] # "write"

ReaderInside == \E g \in Goroutines : HoldsRead(g)

-----------------------------------------------------------------------------
(* Steps of a goroutine.                                                   *)

\* Code of a client calls a wrapped function or a method of the registry.
Enter(g, why) ==
    /\ pc[g] = "user"
    /\ why = "call" => depth[g] < MaxDepth
    /\ Goto(g, "lock")
    /\ op' = [op EXCEPT ![g] = why]
    /\ UNCHANGED depth

Announce(g) ==
    /\ pc[g] = "lock" /\ op[g] = "write"
    /\ ~WriterAnnounced
    /\ Goto(g, "announced")
    /\ UNCHANGED <<op, depth>>

Lock(g) ==
    /\ pc[g] = "announced"
    /\ ~ReaderInside
    /\ Goto(g, "locked")
    /\ UNCHANGED <<op, depth>>

RLock(g) ==
    /\ pc[g] = "lock" /\ op[g] # "write"
    /\ Goto(g, IF WriterAnnounced THEN "waiting" ELSE "locked")
    /\ UNCHANGED <<op, depth>>

\* A writer lets in the readers that wait.  After its lookup a wrapped call goes on
\* with handlers and target.
Unlock(g) ==
    /\ pc[g] = "locked"
    /\ pc' = [h \in Goroutines |->
                CASE h = g -> "user"
                  [] h # g /\ op[g] = "write" /\ pc[h] = "waiting" -> "locked"
                  [] OTHER -> pc[h]]
    /\ depth' = [depth EXCEPT ![g] = IF op[g] = "call" THEN @ + 1 ELSE @]
    /\ UNCHANGED op

\* The last handler of a call has ended, however it did.
Return(g) ==
    /\ pc[g] = "user" /\ depth[g] > 0
    /\ depth' = [depth EXCEPT ![g] = @ - 1]
    /\ UNCHANGED <<pc, op>>

-----------------------------------------------------------------------------

Next ==
    \E g \in Goroutines :
        \/ \E why \in {"call", "read", "write"} : Enter(g, why)
        \/ Announce(g) \/ Lock(g) \/ RLock(g) \/ Unlock(g) \/ Return(g)

\* sync.RWMutex is fair as in module Registry; handlers and targets end: whoever is
\* in those of a call again and again, because what they call returns, leaves it.
Fairness ==
    \A g \in Goroutines :
        /\ SF_vars(Announce(g))
        /\ WF_vars(Lock(g) \/ RLock(g) \/ Unlock(g))
        /\ \A k \in 1..MaxDepth : SF_vars(depth[g] = k /\ Return(g))

Spec == Init /\ [][Next]_vars /\ Fairness

-----------------------------------------------------------------------------
(* Properties.                                                             *)

\* The wrapped calls that g has begun and not ended.
Level(g) == IF pc[g] # "user" /\ op[g] = "call" THEN depth[g] + 1 ELSE depth[g]

\* Every call of a wrapped function ends, at every depth, although its handlers and
\* its target call wrapped functions and registry methods while other goroutines
\* register functions and attach advice (executeWithAdvice, GetAdviceChain).
EveryCallEnds ==
    \A g \in Goroutines, k \in 1..MaxDepth : Level(g) >= k ~> Level(g) < k
=============================================================================
