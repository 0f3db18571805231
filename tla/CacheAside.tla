----------------------------- MODULE CacheAside -----------------------------
(***************************************************************************)
(* examples/02_caching_pattern: Around advice that looks into a cache and  *)
(* skips the function on a hit, AfterReturning advice that fills it.       *)
(*                                                                         *)
(* FetchUserProfile uses the type Cache, whose entries never expire and    *)
(* whose Get counts hits and misses; CalculateRecommendations uses a map   *)
(* with entries that expire after 5 seconds and counts nothing.  A key     *)
(* belongs to one of the two.  Both are wrapped with Wrap1RE.              *)
(*                                                                         *)
(* Get increments its counters under the read lock, which does not keep    *)
(* other readers out: the increment is a load and a store.                 *)
(***************************************************************************)
EXTENDS Naturals, Functions

CONSTANTS
    Callers,            \* goroutines that call the wrapped functions
    Profiles,           \* user ids FetchUserProfile is called with
    Recommendations,    \* those CalculateRecommendations is called with
    MaxCalls            \* bound: calls made for each key

Keys == Profiles \cup Recommendations

\* One user has a key of its own in each cache.
ASSUME CacheAssumption == Profiles \cap Recommendations = {} /\ MaxCalls \in Nat

VARIABLES
    entry,          \* the cache: "none", "fresh" or "expired" for each key
    hits, miss,     \* Cache.hits and Cache.miss
    pc, key,        \* where each caller is, and the argument of its call
    skipped,        \* ctx.Skipped of its call
    loaded,         \* the counter value it has loaded
    answer,         \* what its caller gets: "nil" or "value"
    calls,          \* calls begun for each key
    fetched         \* history: how often it ran the function for a key, since
                    \* the entry of that key last expired

cache == <<entry, hits, miss>>
local == <<key, skipped, loaded, answer, calls>>
vars  == <<cache, pc, local, fetched>>

Init ==
    /\ entry = [k \in Keys |-> "none"]
    /\ hits = 0 /\ miss = 0
    /\ pc = [c \in Callers |-> "idle"]
    /\ key \in [Callers -> Keys]
    /\ skipped = [c \in Callers |-> FALSE]
    /\ loaded = [c \in Callers |-> 0]
    /\ answer = [c \in Callers |-> "nil"]
    /\ calls = [k \in Keys |-> 0]
    /\ fetched = [c \in Callers |-> [k \in Keys |-> 0]]

-----------------------------------------------------------------------------

Goto(c, place) == pc' = [pc EXCEPT ![c] = place]

\* Where the Around advice leaves the call.
Decided(hit) == IF hit THEN "done" ELSE "fetch"

Invoke(c) ==
    /\ pc[c] = "idle"
    /\ \E k \in Keys :
          /\ calls[k] < MaxCalls
          /\ calls' = [calls EXCEPT ![k] = @ + 1]
          /\ key' = [key EXCEPT ![c] = k]
    /\ skipped' = [skipped EXCEPT ![c] = FALSE]
    /\ answer' = [answer EXCEPT ![c] = "nil"]
    /\ Goto(c, "around")
    /\ UNCHANGED <<cache, loaded, fetched>>

\* The Around advice looks the key up under the read lock; Get keeps the lock
\* to count.  A hit sets result 0 of the context, which Wrap1RE does not look
\* at, and Skipped, on which the AfterReturning advice does nothing.
LookUp(c) ==
    LET hit == entry[key[c]] = "fresh"
    IN  /\ pc[c] = "around"
        /\ skipped' = [skipped EXCEPT ![c] = hit]
        /\ Goto(c, IF key[c] \in Profiles THEN "load" ELSE Decided(hit))
        /\ UNCHANGED <<cache, key, loaded, answer, calls, fetched>>

LoadCounter(c) ==
    /\ pc[c] = "load"
    /\ loaded' = [loaded EXCEPT ![c] = IF skipped[c] THEN hits ELSE miss]
    /\ Goto(c, "store")
    /\ UNCHANGED <<cache, key, skipped, answer, calls, fetched>>

StoreCounter(c) ==
    /\ pc[c] = "store"
    /\ IF skipped[c] THEN hits' = loaded[c] + 1 /\ UNCHANGED miss
                     ELSE miss' = loaded[c] + 1 /\ UNCHANGED hits
    /\ Goto(c, Decided(skipped[c]))
    /\ UNCHANGED <<entry, local, fetched>>

\* The function itself: the closure of Wrap1RE keeps its result.
Fetch(c) ==
    /\ pc[c] = "fetch"
    /\ answer' = [answer EXCEPT ![c] = "value"]
    /\ fetched' = [fetched EXCEPT ![c][key[c]] = @ + 1]
    /\ Goto(c, "populate")
    /\ UNCHANGED <<cache, key, skipped, loaded, calls>>

\* No caller holds the read lock of the cache that k belongs to.
Unread(k) == k \in Profiles => \A c \in Callers : pc[c] \notin {"load", "store"}

\* Faulty: an entry that exists already is kept, also when it has expired.
PopulateIfAbsent(c) ==
    /\ pc[c] = "populate" /\ Unread(key[c])
    /\ entry' = [entry EXCEPT ![key[c]] = IF @ = "none" THEN "fresh" ELSE @]
    /\ Goto(c, "done")
    /\ UNCHANGED <<hits, miss, local, fetched>>

\* The AfterReturning advice stores the result under the write lock.
Populate(c) ==
    /\ pc[c] = "populate" /\ Unread(key[c])
    /\ entry' = [entry EXCEPT ![key[c]] = "fresh"]
    /\ Goto(c, "done")
    /\ UNCHANGED <<hits, miss, local, fetched>>

Return(c) ==
    /\ pc[c] = "done"
    /\ Goto(c, "idle")
    /\ UNCHANGED <<cache, local, fetched>>

\* Five seconds after it was stored an entry counts no more.
Expire(k) ==
    /\ k \in Recommendations /\ entry[k] = "fresh"
    /\ entry' = [entry EXCEPT ![k] = "expired"]
    /\ fetched' = [c \in Callers |-> [fetched[c] EXCEPT ![k] = 0]]
    /\ UNCHANGED <<hits, miss, pc, local>>

Next ==
    \/ \E c \in Callers :
          \/ Invoke(c) \/ LookUp(c) \/ LoadCounter(c) \/ StoreCounter(c)
          \/ Fetch(c) \/ Populate(c) \/ Return(c)
    \/ \E k \in Keys : Expire(k)

Spec == Init /\ [][Next]_vars

-----------------------------------------------------------------------------

\* Concurrent callers may all miss and run the function for the same key, but
\* none of them runs it twice for a key whose entry has not expired: what a
\* call stored is there when the next call looks.
FetchedOnce ==
    \A c \in Callers, k \in Keys : fetched[c][k] <= 1

\* Line 323 of the demonstration, "Cache efficiency: %d hits, %d miss": between
\* calls, hits and misses add up to the calls made.
StatsAddUp ==
    (\A c \in Callers : pc[c] = "idle") =>
        hits + miss = SumFunctionOnSet(calls, Profiles)
=============================================================================
