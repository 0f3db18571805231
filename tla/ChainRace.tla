----------------------------- MODULE ChainRace ------------------------------
(***************************************************************************)
(* One list of an advice chain, with the memory of the Go slice it is:     *)
(* AddAdvice appends to it under the lock of the registry, while           *)
(* executeAdviceList (aspect/advice.go) copies it without any lock.        *)
(*                                                                         *)
(* append stores the parts of the slice one by one: if the array is full,  *)
(* the pointer to a larger array that holds a copy; then the length; then  *)
(* the element.  The copy loads the pointer and the length separately, in  *)
(* the order the compiler likes.                                           *)
(*                                                                         *)
(* This is what module Weave takes as atomic: ReaderComplete says that the *)
(* advice attached before a list is read is read, as Weave has it, and     *)
(* TornOnlyDuringAppend says when a call may meet what Weave leaves out, a *)
(* slot with no handler in it.                                             *)
(***************************************************************************)
EXTENDS Naturals, Sequences, Functions

CONSTANTS
    Appenders,      \* calls of AddAdvice, each with a piece of advice of its own
    Readers         \* calls of executeAdviceList

Empty == "empty"    \* a slot that has not been written
Wild  == "wild"     \* what lies beyond the end of an array

ASSUME ChainAssumption ==
    /\ Appenders \cap Readers = {}
    /\ {Empty, Wild} \cap Appenders = {}

VARIABLES
    arrays,     \* the arrays allocated so far
    list,       \* the slice: the array it points to, and its length
    pc,
    seen,       \* the slice as each call has loaded it
    copy,       \* what each reader has copied
    before,     \* history: the appends done before the read began
    overlapped  \* history: whether an append was under way during the read

vars == <<arrays, list, pc, seen, copy, before, overlapped>>

\* Faulty: make([]Advice, 1) for make([]Advice, 0).
InitWithLength ==
    /\ arrays = <<<<Empty>>>>
    /\ list = [array |-> 1, len |-> 1]
    /\ pc = [c \in Appenders \cup Readers |-> "idle"]
    /\ seen = [c \in Appenders \cup Readers |-> list]
    /\ copy = [r \in Readers |-> <<>>]
    /\ before = [r \in Readers |-> {}]
    /\ overlapped = [r \in Readers |-> FALSE]

Init ==
    /\ arrays = <<<<>>>>
    /\ list = [array |-> 1, len |-> 0]
    /\ pc = [c \in Appenders \cup Readers |-> "idle"]
    /\ seen = [c \in Appenders \cup Readers |-> list]
    /\ copy = [r \in Readers |-> <<>>]
    /\ before = [r \in Readers |-> {}]
    /\ overlapped = [r \in Readers |-> FALSE]

Goto(c, place) == pc' = [pc EXCEPT ![c] = place]

Appending == {w \in Appenders : pc[w] \notin {"idle", "done"}}
Attached  == {w \in Appenders : pc[w] = "done"}

-----------------------------------------------------------------------------
(* AddAdvice: chain.Add inside the lock.                                   *)

\* Faulty: AddAdvice takes the read lock.
LockShared(w) ==
    /\ pc[w] = "idle"
    /\ Goto(w, "load")
    /\ overlapped' = [r \in Readers |-> overlapped[r] \/ pc[r] \notin {"idle", "done"}]
    /\ UNCHANGED <<arrays, list, seen, copy, before>>

Lock(w) ==
    /\ pc[w] = "idle" /\ Appending = {}
    /\ Goto(w, "load")
    /\ overlapped' = [r \in Readers |-> overlapped[r] \/ pc[r] \notin {"idle", "done"}]
    /\ UNCHANGED <<arrays, list, seen, copy, before>>

\* The array a of twice the size, or of size 1, with the same contents.
Grown(a) == a \o [i \in 1..(IF a = <<>> THEN 1 ELSE Len(a)) |-> Empty]

\* append loads the slice, and copies the array if it is full.
LoadToAppend(w) ==
    LET full == list.len = Len(arrays[list.array])
    IN  /\ pc[w] = "load"
        /\ arrays' = IF full THEN Append(arrays, Grown(arrays[list.array])) ELSE arrays
        /\ seen' = [seen EXCEPT ![w] =
              [array |-> IF full THEN Len(arrays) + 1 ELSE list.array, len |-> list.len + 1]]
        /\ Goto(w, IF full THEN "pointer" ELSE "length")
        /\ UNCHANGED <<list, copy, before, overlapped>>

StorePointer(w) ==
    /\ pc[w] = "pointer"
    /\ list' = [list EXCEPT !.array = seen[w].array]
    /\ Goto(w, "length")
    /\ UNCHANGED <<arrays, seen, copy, before, overlapped>>

StoreLength(w) ==
    /\ pc[w] = "length"
    /\ list' = [list EXCEPT !.len = seen[w].len]
    /\ Goto(w, "element")
    /\ UNCHANGED <<arrays, seen, copy, before, overlapped>>

\* Faulty: new advice is moved to the front, in the array the readers read.
StoreElementInFront(w) ==
    LET a == seen[w].array
    IN  /\ pc[w] = "element"
        /\ arrays' = [arrays EXCEPT ![a][seen[w].len] = arrays[a][1], ![a][1] = w]
        /\ Goto(w, "done")
        /\ UNCHANGED <<list, seen, copy, before, overlapped>>

\* The element is written, AddAdvice unlocks and returns.
StoreElement(w) ==
    /\ pc[w] = "element"
    /\ arrays' = [arrays EXCEPT ![seen[w].array][seen[w].len] = w]
    /\ Goto(w, "done")
    /\ UNCHANGED <<list, seen, copy, before, overlapped>>

-----------------------------------------------------------------------------
(* executeAdviceList.                                                      *)

\* The first of the two loads.
StartReading(r) ==
    /\ pc[r] = "idle"
    /\ before' = [before EXCEPT ![r] = Attached]
    /\ overlapped' = [overlapped EXCEPT ![r] = Appending # {}]
    /\ \/ Goto(r, "length") /\ seen' = [seen EXCEPT ![r].array = list.array]
       \/ Goto(r, "pointer") /\ seen' = [seen EXCEPT ![r].len = list.len]
    /\ UNCHANGED <<arrays, list, copy>>

LoadLength(r) ==
    /\ pc[r] = "length"
    /\ seen' = [seen EXCEPT ![r].len = list.len]
    /\ Goto(r, "copy")
    /\ UNCHANGED <<arrays, list, copy, before, overlapped>>

LoadPointer(r) ==
    /\ pc[r] = "pointer"
    /\ seen' = [seen EXCEPT ![r].array = list.array]
    /\ Goto(r, "copy")
    /\ UNCHANGED <<arrays, list, copy, before, overlapped>>

\* What slot i of array a holds.
Slot(a, i) == IF i \in DOMAIN arrays[a] THEN arrays[a][i] ELSE Wild

CopySlot(r) ==
    /\ pc[r] = "copy" /\ Len(copy[r]) < seen[r].len
    /\ copy' = [copy EXCEPT ![r] = Append(@, Slot(seen[r].array, Len(@) + 1))]
    /\ UNCHANGED <<arrays, list, pc, seen, before, overlapped>>

FinishReading(r) ==
    /\ pc[r] = "copy" /\ Len(copy[r]) = seen[r].len
    /\ Goto(r, "done")
    /\ UNCHANGED <<arrays, list, seen, copy, before, overlapped>>

-----------------------------------------------------------------------------

Next ==
    \/ \E w \in Appenders :
          Lock(w) \/ LoadToAppend(w) \/ StorePointer(w) \/ StoreLength(w) \/ StoreElement(w)
    \/ \E r \in Readers :
          StartReading(r) \/ LoadLength(r) \/ LoadPointer(r) \/ CopySlot(r) \/ FinishReading(r)

Spec == Init /\ [][Next]_vars

-----------------------------------------------------------------------------
(* Properties.                                                             *)

\* AddAdvice loses nothing: every piece of advice whose AddAdvice has returned is
\* in the list, also when other calls have moved the list to another array since.
NothingLost ==
    \A w \in Attached : \E i \in 1..list.len : Slot(list.array, i) = w

\* A list that is being read, without the lock, while others append to it: all
\* advice attached before is copied, and nothing is copied twice.
ReaderComplete ==
    \A r \in Readers : pc[r] = "done" =>
        /\ before[r] \subseteq Range(copy[r])
        /\ \A i, j \in DOMAIN copy[r] :
              i # j /\ copy[r][i] = copy[r][j] => copy[r][i] \in {Empty, Wild}

\* A call can meet a slot without a handler, or memory beyond the array, only if
\* AddAdvice was under way for that very list while it was being copied.
TornOnlyDuringAppend ==
    \A r \in Readers :
        pc[r] = "done" /\ Range(copy[r]) \cap {Empty, Wild} # {} => overlapped[r]
=============================================================================
