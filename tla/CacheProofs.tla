----------------------------- MODULE CacheProofs -----------------------------
(***************************************************************************)
(* Proof that no caller runs a cached function twice for an entry that has *)
(* not expired, for any number of callers, keys and calls.                 *)
(***************************************************************************)
EXTENDS CacheAside, TLAPS

Places == {"idle", "around", "load", "store", "fetch", "populate", "done"}

Types ==
    /\ entry \in [Keys -> {"none", "fresh", "expired"}]
    /\ pc \in [Callers -> Places]
    /\ key \in [Callers -> Keys]
    /\ skipped \in [Callers -> BOOLEAN]
    /\ fetched \in [Callers -> [Keys -> {0, 1}]]

\* c is about to store what it has got for k.
Storing(c, k) == pc[c] = "populate" /\ key[c] = k

\* c has missed, and will run the function.
Missed(c) == pc[c] = "fetch" \/ (pc[c] \in {"load", "store"} /\ ~skipped[c])

\* Of what a caller has fetched the entry is there, or the caller is about to store
\* it; so a caller that misses has not fetched the key since the entry expired.
\* Another caller cannot take the entry away, it can only store it as well.
Kept ==
    /\ \A c \in Callers, k \in Keys : fetched[c][k] = 1 => entry[k] = "fresh" \/ Storing(c, k)
    /\ \A c \in Callers : Missed(c) => fetched[c][key[c]] = 0

IInv == Types /\ Kept

LEMMA InitInv == Init => IInv
BY DEF Init, IInv, Types, Kept, Places, Storing, Missed

LEMMA NextInv == IInv /\ [Next]_vars => IInv'
<1> SUFFICES ASSUME IInv, [Next]_vars
             PROVE  IInv'
    OBVIOUS
<1> USE DEF IInv, Types, Places, Goto, cache, local
<1>1. ASSUME NEW c \in Callers, Invoke(c)
      PROVE  IInv'
    <2>1. PICK k \in Keys : key' = [key EXCEPT ![c] = k]
        BY <1>1 DEF Invoke
    <2>2. Types'
        BY <1>1, <2>1 DEF Invoke
    <2>3. Kept'
        BY <1>1, <2>1 DEF Invoke, Kept, Storing, Missed
    <2> QED
        BY <2>2, <2>3
<1>2. ASSUME NEW c \in Callers, LookUp(c)
      PROVE  IInv'
    <2>1. Types'
        BY <1>2 DEF LookUp, Decided
    <2>2. /\ UNCHANGED <<entry, key, fetched>>
          /\ \A d \in Callers : d # c => pc'[d] = pc[d] /\ skipped'[d] = skipped[d]
          /\ pc[c] = "around" /\ pc'[c] \in {"load", "fetch", "done"}
          /\ skipped'[c] <=> entry[key[c]] = "fresh"
          /\ pc'[c] = "fetch" => ~(entry[key[c]] = "fresh")
        BY <1>2 DEF LookUp, Decided
    <2>3. \A d \in Callers, k \in Keys : Storing(d, k) => Storing(d, k)'
        BY <2>2 DEF Storing
    <2>4. Missed(c)' => fetched[c][key[c]] = 0
        BY <2>2 DEF Missed, Kept, Storing
    <2>5. \A d \in Callers : d # c => Missed(d)' = Missed(d)
        BY <2>2 DEF Missed
    <2>6. Kept'
        BY <2>2, <2>3, <2>4, <2>5 DEF Kept
    <2> QED
        BY <2>1, <2>6
<1>3. ASSUME NEW c \in Callers, LoadCounter(c) \/ StoreCounter(c)
      PROVE  IInv'
    <2>1. Types'
        BY <1>3 DEF LoadCounter, StoreCounter, Decided
    <2>2. /\ UNCHANGED <<entry, key, skipped, fetched>>
          /\ \A d \in Callers : d # c => pc'[d] = pc[d]
          /\ pc[c] \in {"load", "store"} /\ pc'[c] \in {"store", "fetch", "done"}
          /\ pc'[c] = "fetch" => ~skipped[c]
        BY <1>3 DEF LoadCounter, StoreCounter, Decided
    <2>3. \A d \in Callers : Missed(d)' => Missed(d)
        BY <2>2 DEF Missed
    <2>4. \A d \in Callers, k \in Keys : Storing(d, k) => Storing(d, k)'
        BY <2>2 DEF Storing
    <2>5. Kept'
        BY <2>2, <2>3, <2>4 DEF Kept
    <2> QED
        BY <2>1, <2>5
<1>4. ASSUME NEW c \in Callers, Fetch(c)
      PROVE  IInv'
    <2>1. fetched[c][key[c]] = 0 /\ fetched' = [fetched EXCEPT ![c][key[c]] = 1]
        <3>1. pc[c] = "fetch" /\ fetched[c][key[c]] = 0
            BY <1>4 DEF Fetch, Kept, Missed
        <3>2. fetched' = [fetched EXCEPT ![c][key[c]] = fetched[c][key[c]] + 1]
            BY <1>4 DEF Fetch
        <3> QED
            BY <3>1, <3>2
    <2>2. Types'
        BY <1>4, <2>1 DEF Fetch
    <2>3. Kept'
        BY <1>4, <2>1 DEF Fetch, Kept, Storing, Missed
    <2> QED
        BY <2>2, <2>3
<1>5. ASSUME NEW c \in Callers, Populate(c)
      PROVE  IInv'
    BY <1>5 DEF Populate, Kept, Storing, Missed
<1>6. ASSUME NEW c \in Callers, Return(c)
      PROVE  IInv'
    BY <1>6 DEF Return, Kept, Storing, Missed
<1>7. ASSUME NEW k \in Keys, Expire(k)
      PROVE  IInv'
    <2>1. Types'
        BY <1>7 DEF Expire
    <2>2. \A c \in Callers, i \in Keys : fetched'[c][i] = IF i = k THEN 0 ELSE fetched[c][i]
        BY <1>7 DEF Expire
    <2>3. Kept'
        BY <1>7, <2>2 DEF Expire, Kept, Storing, Missed
    <2> QED
        BY <2>1, <2>3
<1>8. CASE UNCHANGED vars
    BY <1>8 DEF vars, Kept, Storing, Missed
<1> QED
    BY <1>1, <1>2, <1>3, <1>4, <1>5, <1>6, <1>7, <1>8 DEF Next

\* What a call has stored is there when the next call of the same goroutine looks,
\* whatever other callers do between its look-up and its store: look-up and store
\* are two critical sections, and only the expiry comes between them.
THEOREM NeverFetchedAgain == Spec => []FetchedOnce
<1>1. IInv => FetchedOnce
    BY DEF IInv, Types, FetchedOnce
<1> QED
    BY <1>1, InitInv, NextInv, PTL DEF Spec
=============================================================================
