----------------------------- MODULE ChainProofs -----------------------------
(***************************************************************************)
(* Proofs about one list of an advice chain, for any number of AddAdvice   *)
(* calls and of calls that read the list meanwhile.                        *)
(***************************************************************************)
EXTENDS ChainRace, TLAPS

Slices == [array : Nat, len : Nat]

Types ==
    /\ arrays \in Seq(Seq(Appenders \cup {Empty}))
    /\ list \in Slices /\ list.array \in 1..Len(arrays)
    /\ pc \in [Appenders \cup Readers ->
                 {"idle", "load", "pointer", "length", "element", "copy", "done"}]
    /\ seen \in [Appenders \cup Readers -> Slices]
    /\ copy \in [Readers -> Seq(Appenders \cup {Empty, Wild})]
    /\ before \in [Readers -> SUBSET Appenders]
    /\ overlapped \in [Readers -> BOOLEAN]

-----------------------------------------------------------------------------
(* The appenders.                                                          *)

Exclusive == \A v, w \in Appending : v = w

\* An array holds nothing but attached advice, and each piece once.
Clean(a) ==
    /\ \A i \in DOMAIN arrays[a] : arrays[a][i] \in Attached \cup {Empty}
    /\ \A i, j \in DOMAIN arrays[a] : arrays[a][i] = arrays[a][j] => i = j \/ arrays[a][i] = Empty

\* The first n slots of array a hold all attached advice.
Holds(a, n) ==
    /\ n \in Nat /\ n <= Len(arrays[a])
    /\ \A i \in 1..n : arrays[a][i] \in Attached
    /\ \A w \in Attached : \E i \in 1..n : arrays[a][i] = w

\* The slot that w is going to write.
Reserved(w) ==
    /\ seen[w].array \in 1..Len(arrays)
    /\ seen[w].len \in 1..Len(arrays[seen[w].array])
    /\ arrays[seen[w].array][seen[w].len] = Empty

\* Where an append has got to: the slice that the others can see holds what has
\* been attached, but for the slot of w once the length counts it.
AppendInv(w) ==
    /\ pc[w] # "copy"
    /\ pc[w] = "load" => Holds(list.array, list.len)
    /\ pc[w] \in {"pointer", "length"} =>
          /\ Holds(list.array, list.len)
          /\ Reserved(w) /\ seen[w].len = list.len + 1
          /\ \A i \in 1..list.len : arrays[seen[w].array][i] = arrays[list.array][i]
    /\ pc[w] = "length" => seen[w].array = list.array
    /\ pc[w] = "element" =>
          /\ Reserved(w) /\ seen[w] = list
          /\ Holds(list.array, list.len - 1)

ListInv ==
    /\ \A a \in 1..Len(arrays) : Clean(a)
    /\ Appending = {} => Holds(list.array, list.len)
    /\ \A w \in Appenders : AppendInv(w)

-----------------------------------------------------------------------------
(* The readers.                                                            *)

InSlot(a, i, w) == a \in 1..Len(arrays) /\ i \in DOMAIN arrays[a] /\ arrays[a][i] = w

\* The advice w, attached before r began, is or will be copied by r.
Ahead(r, w) ==
    /\ w \in Attached
    /\ pc[r] = "length" => \E i \in 1..list.len : InSlot(seen[r].array, i, w)
    /\ pc[r] = "pointer" => \E i \in 1..seen[r].len : InSlot(list.array, i, w)
    /\ pc[r] \in {"copy", "done"} =>
          \E i \in 1..seen[r].len :
              /\ InSlot(seen[r].array, i, w)
              /\ i \in DOMAIN copy[r] => copy[r][i] = w

\* What r has copied is in the array that it has copied it from.
Copied(r) ==
    /\ pc[r] \in {"idle", "length", "pointer"} => copy[r] = <<>>
    /\ pc[r] = "copy" => Len(copy[r]) <= seen[r].len
    /\ pc[r] = "done" => Len(copy[r]) = seen[r].len
    /\ pc[r] \in {"length", "copy", "done"} => seen[r].array \in 1..Len(arrays)
    /\ \A i \in DOMAIN copy[r] :
          copy[r][i] \in {Empty, Wild} \/ InSlot(seen[r].array, i, copy[r][i])

\* While nobody appends, r sees the list as it is.
Undisturbed(r) == ~overlapped[r] =>
    /\ pc[r] \in {"length", "pointer", "copy"} => Appending = {}
    /\ pc[r] \in {"length", "copy"} => seen[r].array = list.array
    /\ pc[r] \in {"pointer", "copy"} => seen[r].len = list.len
    /\ \A i \in DOMAIN copy[r] : copy[r][i] \notin {Empty, Wild}

ReadInv(r) ==
    /\ pc[r] \in {"idle", "length", "pointer", "copy", "done"}
    /\ pc[r] # "idle" => \A w \in before[r] : Ahead(r, w)
    /\ Copied(r)
    /\ Undisturbed(r)

IInv == Types /\ Exclusive /\ ListInv /\ \A r \in Readers : ReadInv(r)

-----------------------------------------------------------------------------
(* Arrays.                                                                 *)

\* An array is allocated or a free slot of one is written: nothing else happens to
\* the arrays.
Keeps ==
    /\ Len(arrays) <= Len(arrays')
    /\ \A a \in 1..Len(arrays) :
          /\ Len(arrays'[a]) = Len(arrays[a])
          /\ \A i \in 1..Len(arrays[a]) : arrays[a][i] = Empty \/ arrays'[a][i] = arrays[a][i]

\* A grown array is longer, and has the contents of the old one and free slots.
LEMMA GrownArray ==
    ASSUME NEW a \in Seq(Appenders \cup {Empty})
    PROVE  /\ Grown(a) \in Seq(Appenders \cup {Empty})
           /\ Len(a) < Len(Grown(a))
           /\ \A i \in 1..Len(a) : Grown(a)[i] = a[i]
           /\ \A i \in 1..Len(Grown(a)) : i > Len(a) => Grown(a)[i] = Empty
<1> DEFINE n == IF a = <<>> THEN 1 ELSE Len(a)
           free == [i \in 1..n |-> Empty]
<1>1. Len(a) \in Nat /\ n \in Nat \ {0}
    OBVIOUS
<1>2. free \in Seq(Appenders \cup {Empty}) /\ Len(free) = n
    BY <1>1
<1>3. Grown(a) = a \o free
    BY DEF Grown
<1> HIDE DEF n
<1> QED
    BY <1>1, <1>2, <1>3

\* The arrays after a write to one slot.
LEMMA WrittenSlot ==
    ASSUME arrays \in Seq(Seq(Appenders \cup {Empty})),
           NEW a \in 1..Len(arrays), NEW i \in 1..Len(arrays[a]), NEW w \in Appenders,
           arrays' = [arrays EXCEPT ![a][i] = w]
    PROVE  /\ arrays' \in Seq(Seq(Appenders \cup {Empty}))
           /\ Len(arrays') = Len(arrays)
           /\ \A b \in 1..Len(arrays) :
                 /\ Len(arrays'[b]) = Len(arrays[b])
                 /\ \A j \in 1..Len(arrays[b]) :
                       arrays'[b][j] = IF b = a /\ j = i THEN w ELSE arrays[b][j]
<1> DEFINE row == [arrays[a] EXCEPT ![i] = w]
<1>1. arrays[a] \in Seq(Appenders \cup {Empty})
    OBVIOUS
<1>2. row \in Seq(Appenders \cup {Empty}) /\ Len(row) = Len(arrays[a])
      /\ \A j \in 1..Len(arrays[a]) : row[j] = IF j = i THEN w ELSE arrays[a][j]
    BY <1>1
<1>3. arrays' = [arrays EXCEPT ![a] = row]
    OBVIOUS
<1> HIDE DEF row
<1> QED
    BY <1>1, <1>2, <1>3

-----------------------------------------------------------------------------
(* The steps of AddAdvice.                                                 *)

AppInv == Types /\ Exclusive /\ ListInv

\* Nothing that AppInv is about has changed.
LEMMA AppendersRest ==
    ASSUME AppInv, UNCHANGED <<arrays, list>>,
           \A w \in Appenders : pc'[w] = pc[w] /\ seen'[w] = seen[w]
    PROVE  Exclusive' /\ ListInv' /\ Appending' = Appending /\ Attached' = Attached
<1>1. Appending' = Appending /\ Attached' = Attached
    BY DEF Appending, Attached
<1>2. Exclusive'
    BY <1>1 DEF AppInv, Exclusive
<1>3. ListInv'
    <2>1. \A a \in 1..Len(arrays) : Clean(a)'
        BY <1>1 DEF AppInv, ListInv, Clean
    <2>2. Holds(list.array, list.len)' = Holds(list.array, list.len)
          /\ Holds(list.array, list.len - 1)' = Holds(list.array, list.len - 1)
        BY <1>1 DEF Holds
    <2>3. \A w \in Appenders : AppendInv(w)'
        BY <2>2 DEF AppInv, ListInv, AppendInv, Reserved
    <2> QED
        BY <1>1, <2>1, <2>2, <2>3 DEF AppInv, ListInv
<1> QED
    BY <1>1, <1>2, <1>3

LEMMA LockStep ==
    ASSUME AppInv, NEW w \in Appenders, Lock(w)
    PROVE  AppInv' /\ Keeps /\ Attached' = Attached
<1> USE DEF AppInv
<1>1. Types'
    BY DEF Types, Lock, Goto
<1>2. Attached' = Attached /\ Appending' = {w}
    BY DEF Types, Lock, Goto, Attached, Appending
<1>3. Exclusive'
    BY <1>2 DEF Exclusive
<1>4. Keeps
    BY DEF Lock, Keeps, Types
<1>5. ListInv'
    <2>1. UNCHANGED <<arrays, list, seen>> /\ Holds(list.array, list.len)
        BY DEF Lock, ListInv
    <2>2. Holds(list.array, list.len)'
        BY <1>2, <2>1 DEF Holds
    <2>3. \A v \in Appenders : AppendInv(v)'
        <3> TAKE v \in Appenders
        <3>1. CASE v = w
            BY <3>1, <2>2 DEF AppendInv, Types, Lock, Goto
        <3>2. CASE v # w
            <4>1. pc'[v] = pc[v] /\ v \notin Appending
                BY <3>2 DEF Types, Lock, Goto
            <4> QED
                BY <4>1 DEF AppendInv, Appending
        <3> QED
            BY <3>1, <3>2
    <2> QED
        <3>1. \A a \in 1..Len(arrays') : Clean(a)'
            BY <1>2, <2>1 DEF ListInv, Clean
        <3>2. Appending' # {}
            BY <1>2
        <3> QED
            BY <2>3, <3>1, <3>2 DEF ListInv
<1> QED
    BY <1>1, <1>2, <1>3, <1>4, <1>5

\* One call is in the lock, and the others do not move.
LEMMA Alone ==
    ASSUME AppInv, NEW w \in Appenders, w \in Appending,
           NEW place, Goto(w, place)
    PROVE  \A v \in Appenders : v # w => pc'[v] = pc[v] /\ pc[v] \in {"idle", "done"}
BY DEF AppInv, Types, Exclusive, Appending, Goto

LEMMA LoadStep ==
    ASSUME AppInv, NEW w \in Appenders, LoadToAppend(w)
    PROVE  AppInv' /\ Keeps /\ Attached' = Attached
<1> USE DEF AppInv
<1> DEFINE a == list.array
           full == list.len = Len(arrays[a])
<1>1. /\ a \in 1..Len(arrays) /\ arrays[a] \in Seq(Appenders \cup {Empty})
      /\ list.len \in Nat /\ pc[w] = "load" /\ w \in Appending
      /\ Holds(a, list.len) /\ list.len <= Len(arrays[a])
    BY DEF Types, LoadToAppend, Appending, ListInv, AppendInv, Holds, Slices
<1>2. /\ list' = list
      /\ pc' = [pc EXCEPT ![w] = IF full THEN "pointer" ELSE "length"]
      /\ seen' = [seen EXCEPT ![w] =
              [array |-> IF full THEN Len(arrays) + 1 ELSE a, len |-> list.len + 1]]
      /\ arrays' = IF full THEN Append(arrays, Grown(arrays[a])) ELSE arrays
    BY DEF LoadToAppend, Goto
<1>3. /\ arrays' \in Seq(Seq(Appenders \cup {Empty}))
      /\ Len(arrays) <= Len(arrays')
      /\ \A b \in 1..Len(arrays) : arrays'[b] = arrays[b]
      /\ full => Len(arrays') = Len(arrays) + 1 /\ arrays'[Len(arrays) + 1] = Grown(arrays[a])
    <2>1. arrays \in Seq(Seq(Appenders \cup {Empty})) /\ Grown(arrays[a]) \in Seq(Appenders \cup {Empty})
        BY <1>1, GrownArray DEF Types
    <2> HIDE DEF a, full
    <2>2. CASE full
        BY <1>2, <2>1, <2>2
    <2>3. CASE ~full
        BY <1>2, <2>1, <2>3
    <2> QED
        BY <2>2, <2>3
<1> HIDE DEF a, full
<1>4. Types'
    <2>1. seen' \in [Appenders \cup Readers -> Slices]
        BY <1>1, <1>2 DEF Types, Slices
    <2>2. list' \in Slices /\ list'.array \in 1..Len(arrays')
        BY <1>1, <1>2, <1>3 DEF Types
    <2>3. UNCHANGED <<copy, before, overlapped>>
        BY DEF LoadToAppend
    <2> QED
        BY <1>2, <1>3, <2>1, <2>2, <2>3 DEF Types
<1>5. Keeps
    BY <1>3 DEF Keeps
<1>6. \A v \in Appenders : v # w => pc'[v] = pc[v] /\ pc[v] \in {"idle", "done"}
    BY <1>1, <1>2, Alone DEF Goto
<1>7. pc'[w] \in {"pointer", "length"} /\ (pc'[w] = "length" <=> ~full)
    BY <1>2 DEF Types
<1>8. Attached' = Attached /\ Appending' = Appending
    BY <1>1, <1>6, <1>7 DEF Attached, Appending
<1>9. Exclusive'
    BY <1>8 DEF Exclusive
<1>10. ListInv'
    <2> DEFINE b == seen'[w].array
    <2>1. b = (IF full THEN Len(arrays) + 1 ELSE a) /\ seen'[w].len = list.len + 1
        BY <1>2 DEF Types
    <2>2. /\ b \in 1..Len(arrays')
          /\ list.len + 1 \in 1..Len(arrays'[b])
          /\ \A i \in 1..list.len : arrays'[b][i] = arrays[a][i]
          /\ \A i \in 1..Len(arrays'[b]) : i > list.len /\ full => arrays'[b][i] = Empty
        <3>1. CASE full
            <4>1. list.len = Len(arrays[a]) /\ b = Len(arrays) + 1 /\ b \in 1..Len(arrays')
                BY <1>3, <2>1, <3>1 DEF full, Types
            <4>2. arrays'[b] = Grown(arrays[a])
                BY <1>3, <3>1, <4>1
            <4> QED
                BY <1>1, <4>1, <4>2, GrownArray
        <3>2. CASE ~full
            <4>1. arrays' = arrays /\ b = a /\ list.len # Len(arrays[a])
                BY <1>2, <2>1, <3>2 DEF full
            <4> QED
                BY <1>1, <3>2, <4>1
        <3> QED
            BY <3>1, <3>2
    <2>3. arrays'[b][list.len + 1] = Empty
        <3>1. CASE full
            BY <2>2, <3>1, <1>1
        <3>2. CASE ~full
            <4>1. b = a /\ arrays' = arrays /\ list.len + 1 \in 1..Len(arrays[a])
                BY <1>1, <1>2, <2>1, <2>2, <3>2
            <4>2. arrays[a][list.len + 1] \in Attached \cup {Empty}
                BY <4>1, <1>1 DEF ListInv, Clean
            <4>3. ASSUME arrays[a][list.len + 1] \in Attached
                  PROVE  FALSE
                <5>1. PICK i \in 1..list.len : arrays[a][i] = arrays[a][list.len + 1]
                    BY <4>3, <1>1 DEF Holds
                <5>2. i \in DOMAIN arrays[a] /\ list.len + 1 \in DOMAIN arrays[a]
                      /\ i # list.len + 1
                    BY <1>1, <4>1
                <5>3. arrays[a][i] = Empty
                    BY <1>1, <5>1, <5>2 DEF ListInv, Clean
                <5> QED
                    BY <4>3, <5>1, <5>3, ChainAssumption DEF Attached
            <4> QED
                BY <4>1, <4>2, <4>3
        <3> QED
            BY <3>1, <3>2
    <2>4. \A c \in 1..Len(arrays') : Clean(c)'
        <3> TAKE c \in 1..Len(arrays')
        <3>1. CASE c \in 1..Len(arrays)
            BY <1>3, <1>8, <3>1 DEF ListInv, Clean
        <3>2. CASE c \notin 1..Len(arrays)
            <4>1. full /\ c = b /\ arrays'[c] = Grown(arrays[a])
                BY <1>2, <1>3, <2>1, <3>2, <1>1 DEF Types
            <4>2. arrays'[c] \in Seq(Appenders \cup {Empty})
                BY <1>3
            <4>3. \A i \in DOMAIN arrays'[c] :
                     \/ i \in 1..Len(arrays[a]) /\ arrays'[c][i] = arrays[a][i]
                     \/ arrays'[c][i] = Empty
                <5>1. DOMAIN arrays'[c] = 1..Len(arrays'[c])
                    BY <4>2
                <5>2. Len(arrays[a]) \in Nat
                    BY <1>1
                <5> QED
                    BY <4>1, <5>1, <5>2, <1>1, GrownArray
            <4>4. Clean(a)
                BY <1>1 DEF ListInv
            <4> QED
                BY <4>3, <4>4, <1>8, <1>1 DEF Clean
        <3> QED
            BY <3>1, <3>2
    <2>5. Holds(list.array, list.len)'
        BY <1>1, <1>2, <1>3, <1>8 DEF Holds, a
    <2>6. AppendInv(w)'
        <3>1. Reserved(w)'
            BY <2>1, <2>2, <2>3 DEF Reserved
        <3>2. \A i \in 1..list'.len : arrays'[seen'[w].array][i] = arrays'[list'.array][i]
            BY <1>1, <1>2, <1>3, <2>2 DEF a
        <3>3. pc'[w] = "length" => seen'[w].array = list'.array
            BY <1>2, <1>7, <2>1 DEF a
        <3> QED
            BY <1>2, <1>7, <2>1, <2>5, <3>1, <3>2, <3>3 DEF AppendInv
    <2>7. \A v \in Appenders : AppendInv(v)'
        BY <1>6, <2>6 DEF AppendInv
    <2> QED
        BY <2>4, <2>5, <2>7 DEF ListInv
<1> QED
    BY <1>4, <1>5, <1>8, <1>9, <1>10

LEMMA PointerStep ==
    ASSUME AppInv, NEW w \in Appenders, StorePointer(w)
    PROVE  /\ AppInv' /\ Keeps /\ Attached' = Attached
           /\ Holds(list.array, list.len)
           /\ \A i \in 1..list.len : arrays[list'.array][i] = arrays[list.array][i]
<1> USE DEF AppInv
<1>1. pc[w] = "pointer" /\ AppendInv(w) /\ w \in Appending
    BY DEF StorePointer, ListInv, Appending
<1>2. UNCHANGED <<arrays, seen, copy, before, overlapped>>
      /\ list' = [list EXCEPT !.array = seen[w].array]
      /\ Goto(w, "length")
    BY DEF StorePointer
<1>3. /\ list'.array = seen[w].array /\ list'.len = list.len
      /\ list' \in Slices /\ list'.array \in 1..Len(arrays)
    BY <1>1, <1>2 DEF Types, AppendInv, Reserved, Slices
<1>4. \A v \in Appenders : v # w => pc'[v] = pc[v] /\ pc[v] \in {"idle", "done"}
    BY <1>1, <1>2, Alone
<1>5. pc'[w] = "length"
    BY <1>2 DEF Goto, Types
<1>6. Attached' = Attached /\ Appending' = Appending
    BY <1>1, <1>4, <1>5 DEF Attached, Appending
<1>7. Types'
    BY <1>2, <1>3 DEF Types, Goto
<1>8. Keeps
    BY <1>2 DEF Keeps, Types
<1>9. Holds(list.array, list.len)' /\ Holds(list.array, list.len)
    <2>1. /\ Holds(list.array, list.len) /\ Reserved(w) /\ seen[w].len = list.len + 1
          /\ \A i \in 1..list.len : arrays[seen[w].array][i] = arrays[list.array][i]
        BY <1>1 DEF AppendInv
    <2>2. list.len \in Nat /\ list.len <= Len(arrays[seen[w].array])
        BY <2>1 DEF Reserved, Types, Slices
    <2> QED
        <3> DEFINE b == seen[w].array
        <3>1. list'.array = b /\ list'.len = list.len /\ arrays' = arrays
            BY <1>2, <1>3
        <3>2. \A i \in 1..list.len : arrays[b][i] \in Attached
            BY <2>1 DEF Holds
        <3>3. \A v \in Attached : \E i \in 1..list.len : arrays[b][i] = v
            BY <2>1 DEF Holds
        <3> HIDE DEF b
        <3>4. Holds(list.array, list.len)'
            BY <1>6, <2>2, <3>1, <3>2, <3>3 DEF Holds, b
        <3> QED
            BY <2>1, <3>4
<1>10. ListInv'
    <2>1. \A a \in 1..Len(arrays') : Clean(a)'
        BY <1>2, <1>6 DEF ListInv, Clean
    <2>2. AppendInv(w)'
        BY <1>1, <1>2, <1>3, <1>5, <1>9 DEF AppendInv, Reserved
    <2>3. \A v \in Appenders : AppendInv(v)'
        BY <1>4, <2>2 DEF AppendInv
    <2> QED
        BY <1>9, <2>1, <2>3 DEF ListInv
<1>11. Exclusive'
    BY <1>6 DEF Exclusive
<1>12. \A i \in 1..list.len : arrays[list'.array][i] = arrays[list.array][i]
    BY <1>1, <1>3 DEF AppendInv
<1> QED
    BY <1>6, <1>7, <1>8, <1>9, <1>10, <1>11, <1>12

LEMMA LengthStep ==
    ASSUME AppInv, NEW w \in Appenders, StoreLength(w)
    PROVE  /\ AppInv' /\ Keeps /\ Attached' = Attached
           /\ list'.array = list.array /\ list'.len >= list.len
<1> USE DEF AppInv
<1>1. pc[w] = "length" /\ AppendInv(w) /\ w \in Appending
    BY DEF StoreLength, ListInv, Appending
<1>2. UNCHANGED <<arrays, seen, copy, before, overlapped>>
      /\ list' = [list EXCEPT !.len = seen[w].len]
      /\ Goto(w, "element")
    BY DEF StoreLength
<1>3. /\ list' = seen[w] /\ list'.array = list.array /\ list'.len = list.len + 1
      /\ list' \in Slices /\ list'.array \in 1..Len(arrays)
    BY <1>1, <1>2 DEF Types, AppendInv, Reserved, Slices
<1>4. \A v \in Appenders : v # w => pc'[v] = pc[v] /\ pc[v] \in {"idle", "done"}
    BY <1>1, <1>2, Alone
<1>5. pc'[w] = "element"
    BY <1>2 DEF Goto, Types
<1>6. Attached' = Attached /\ Appending' = Appending
    BY <1>1, <1>4, <1>5 DEF Attached, Appending
<1>7. Types'
    BY <1>2, <1>3 DEF Types, Goto
<1>8. Keeps
    BY <1>2 DEF Keeps, Types
<1>9. Holds(list.array, list.len - 1)'
    <2>1. Holds(list.array, list.len) /\ list.len \in Nat
        BY <1>1 DEF AppendInv, Types, Slices
    <2>2. list'.len - 1 = list.len
        BY <1>3, <2>1
    <2> QED
        BY <1>2, <1>3, <1>6, <2>1, <2>2 DEF Holds
<1>10. ListInv'
    <2>1. \A a \in 1..Len(arrays') : Clean(a)'
        BY <1>2, <1>6 DEF ListInv, Clean
    <2>2. AppendInv(w)'
        BY <1>1, <1>2, <1>3, <1>5, <1>9 DEF AppendInv, Reserved
    <2>3. \A v \in Appenders : AppendInv(v)'
        BY <1>4, <2>2 DEF AppendInv
    <2> QED
        BY <1>1, <1>6, <2>1, <2>3 DEF ListInv
<1>11. Exclusive'
    BY <1>6 DEF Exclusive
<1> QED
    <2>1. list'.len >= list.len
        BY <1>3 DEF Types, Slices
    <2> QED
        BY <1>3, <1>6, <1>7, <1>8, <1>10, <1>11, <2>1

LEMMA ElementStep ==
    ASSUME AppInv, NEW w \in Appenders, StoreElement(w)
    PROVE  AppInv' /\ Keeps /\ Attached' = Attached \cup {w} /\ Appending' = {}
<1> USE DEF AppInv
<1> DEFINE a == seen[w].array
           n == seen[w].len
<1>1. pc[w] = "element" /\ AppendInv(w) /\ w \in Appending
    BY DEF StoreElement, ListInv, Appending
<1>2. UNCHANGED <<list, seen, copy, before, overlapped>>
      /\ arrays' = [arrays EXCEPT ![a][n] = w]
      /\ Goto(w, "done")
    BY DEF StoreElement
<1>3. /\ a \in 1..Len(arrays) /\ n \in 1..Len(arrays[a]) /\ arrays[a][n] = Empty
      /\ list.array = a /\ list.len = n /\ Holds(a, n - 1)
    BY <1>1 DEF AppendInv, Reserved
<1> HIDE DEF a, n
<1>4. /\ arrays' \in Seq(Seq(Appenders \cup {Empty}))
      /\ Len(arrays') = Len(arrays)
      /\ \A b \in 1..Len(arrays) :
            /\ Len(arrays'[b]) = Len(arrays[b])
            /\ \A j \in 1..Len(arrays[b]) :
                  arrays'[b][j] = IF b = a /\ j = n THEN w ELSE arrays[b][j]
    BY <1>2, <1>3, WrittenSlot DEF Types
<1>5. \A v \in Appenders : v # w => pc'[v] = pc[v] /\ pc[v] \in {"idle", "done"}
    BY <1>1, <1>2, Alone
<1>6. pc'[w] = "done"
    BY <1>2 DEF Goto, Types
<1>7. Attached' = Attached \cup {w} /\ Appending' = {} /\ w \notin Attached
    BY <1>1, <1>5, <1>6 DEF Attached, Appending
<1>8. Types'
    BY <1>2, <1>4 DEF Types, Goto
<1>9. Keeps
    BY <1>3, <1>4 DEF Keeps, Types
<1>10. Holds(list.array, list.len)'
    <2>1. \A i \in 1..n : arrays'[a][i] = IF i = n THEN w ELSE arrays[a][i]
        BY <1>3, <1>4
    <2>2. \A i \in 1..n : i # n => i \in 1..(n - 1)
        BY <1>3
    <2>3. \A i \in 1..n : arrays'[a][i] \in Attached'
        BY <1>3, <1>7, <2>1, <2>2 DEF Holds
    <2>4. \A v \in Attached' : \E i \in 1..n : arrays'[a][i] = v
        BY <1>3, <1>7, <2>1 DEF Holds
    <2> QED
        BY <1>2, <1>3, <1>4, <2>3, <2>4 DEF Holds
<1>11. \A b \in 1..Len(arrays') : Clean(b)'
    <2> SUFFICES ASSUME NEW b \in 1..Len(arrays)
                 PROVE  Clean(b)'
        BY <1>4
    <2>1. Clean(b) /\ DOMAIN arrays[b] = 1..Len(arrays[b]) /\ DOMAIN arrays'[b] = 1..Len(arrays[b])
        <3>1. arrays[b] \in Seq(Appenders \cup {Empty}) /\ arrays'[b] \in Seq(Appenders \cup {Empty})
            BY <1>4 DEF Types
        <3> QED
            BY <1>4, <3>1 DEF ListInv
    <2>2. \A j \in 1..Len(arrays[b]) : arrays[b][j] # w
        BY <1>7, <2>1, ChainAssumption DEF Clean
    <2> QED
        BY <1>4, <1>7, <2>1, <2>2 DEF Clean
<1>12. ListInv'
    BY <1>5, <1>6, <1>10, <1>11 DEF ListInv, AppendInv
<1>13. Exclusive'
    BY <1>7 DEF Exclusive
<1> QED
    BY <1>7, <1>8, <1>9, <1>12, <1>13

\* What is attached is in the list.
LEMMA Committed ==
    ASSUME AppInv, NEW w \in Attached
    PROVE  \E i \in 1..list.len : InSlot(list.array, i, w)
<1> USE DEF AppInv
<1>1. list.array \in 1..Len(arrays) /\ list.len \in Nat
      /\ DOMAIN arrays[list.array] = 1..Len(arrays[list.array])
    <2>1. arrays[list.array] \in Seq(Appenders \cup {Empty})
        BY DEF Types
    <2> QED
        BY <2>1 DEF Types, Slices
<1>2. PICK n \in {list.len, list.len - 1} : Holds(list.array, n)
    <2>1. CASE Appending = {}
        BY <2>1 DEF ListInv
    <2>2. CASE Appending # {}
        <3>1. PICK v \in Appenders : v \in Appending
            BY <2>2 DEF Appending
        <3>2. AppendInv(v)
            BY DEF ListInv
        <3>3. pc[v] \in {"load", "pointer", "length", "element"}
            BY <3>1, <3>2 DEF Appending, Types, AppendInv
        <3> QED
            BY <3>2, <3>3 DEF AppendInv
    <2> QED
        BY <2>1, <2>2
<1>3. PICK i \in 1..n : arrays[list.array][i] = w
    BY <1>2 DEF Holds
<1>4. i \in 1..list.len /\ i \in 1..Len(arrays[list.array])
    BY <1>1, <1>2, <1>3 DEF Holds
<1> QED
    BY <1>1, <1>3, <1>4 DEF InSlot

-----------------------------------------------------------------------------
(* The readers while others move.                                          *)

\* A written slot stays as it is.
LEMMA SlotKept ==
    ASSUME Types, Types', Keeps, NEW a, NEW i, NEW w, w # Empty, InSlot(a, i, w)
    PROVE  InSlot(a, i, w)'
<1>1. a \in 1..Len(arrays) /\ a \in 1..Len(arrays')
    BY DEF InSlot, Keeps, Types
<1>2. arrays[a] \in Seq(Appenders \cup {Empty}) /\ arrays'[a] \in Seq(Appenders \cup {Empty})
    BY <1>1 DEF Types
<1>3. Len(arrays'[a]) = Len(arrays[a])
    BY <1>1 DEF Keeps
<1>4. DOMAIN arrays[a] = 1..Len(arrays[a]) /\ DOMAIN arrays'[a] = 1..Len(arrays[a])
    BY <1>2, <1>3
<1>5. i \in 1..Len(arrays[a]) /\ arrays[a][i] = w
    BY <1>4 DEF InSlot
<1>6. arrays'[a][i] = w
    BY <1>1, <1>5 DEF Keeps
<1> QED
    BY <1>1, <1>4, <1>5, <1>6 DEF InSlot

\* What a reader will copy and has copied survives the steps of all others.
LEMMA ReaderKept ==
    ASSUME Types, Types', Keeps, Attached \subseteq Attached', list'.len >= list.len,
           \A i : \A w \in Attached :
              InSlot(list.array, i, w) => InSlot(list.array, i, w)',
           NEW r \in Readers, ReadInv(r),
           pc'[r] = pc[r], seen'[r] = seen[r], copy'[r] = copy[r], before'[r] = before[r]
    PROVE  /\ pc'[r] # "idle" => \A w \in before'[r] : Ahead(r, w)'
           /\ Copied(r)'
<1>1. ASSUME pc[r] # "idle", NEW w \in before[r]
      PROVE  Ahead(r, w)'
    <2>1. Ahead(r, w) /\ w \in Attached /\ w # Empty
        BY <1>1, ChainAssumption DEF ReadInv, Ahead, Attached
    <2>2. pc[r] = "length" => \E i \in 1..list'.len : InSlot(seen[r].array, i, w)'
        <3> SUFFICES ASSUME pc[r] = "length"
                     PROVE  \E i \in 1..list'.len : InSlot(seen[r].array, i, w)'
            OBVIOUS
        <3>1. PICK i \in 1..list.len : InSlot(seen[r].array, i, w)
            BY <2>1 DEF Ahead
        <3>2. InSlot(seen[r].array, i, w)'
            BY <2>1, <3>1, SlotKept
        <3>3. i \in 1..list'.len
            BY <3>1 DEF Types, Slices
        <3> QED
            BY <3>2, <3>3
    <2>3. pc[r] = "pointer" => \E i \in 1..seen[r].len : InSlot(list.array, i, w)'
        BY <2>1 DEF Ahead
    <2>4. pc[r] \in {"copy", "done"} =>
              \E i \in 1..seen[r].len :
                  /\ InSlot(seen[r].array, i, w)'
                  /\ i \in DOMAIN copy[r] => copy[r][i] = w
        <3> SUFFICES ASSUME pc[r] \in {"copy", "done"}
                     PROVE  \E i \in 1..seen[r].len :
                                /\ InSlot(seen[r].array, i, w)'
                                /\ i \in DOMAIN copy[r] => copy[r][i] = w
            OBVIOUS
        <3>1. PICK i \in 1..seen[r].len :
                  InSlot(seen[r].array, i, w) /\ (i \in DOMAIN copy[r] => copy[r][i] = w)
            BY <2>1 DEF Ahead
        <3>2. InSlot(seen[r].array, i, w)'
            BY <2>1, <3>1, SlotKept
        <3> QED
            BY <3>1, <3>2
    <2> QED
        BY <2>1, <2>2, <2>3, <2>4 DEF Ahead
<1>2. Copied(r)'
    <2>1. \A i \in DOMAIN copy[r] :
              copy[r][i] \in {Empty, Wild} \/ InSlot(seen[r].array, i, copy[r][i])'
        BY SlotKept DEF ReadInv, Copied
    <2>2. seen[r].array \in 1..Len(arrays) => seen[r].array \in 1..Len(arrays')
        BY DEF Keeps, Types
    <2> QED
        BY <2>1, <2>2 DEF ReadInv, Copied
<1> QED
    BY <1>1, <1>2

\* A step of AddAdvice disturbs no reader.
LEMMA AppendDisturbsNone ==
    ASSUME IInv, NEW w \in Appenders,
           Lock(w) \/ LoadToAppend(w) \/ StorePointer(w) \/ StoreLength(w) \/ StoreElement(w)
    PROVE  IInv'
<1>1. AppInv
    BY DEF IInv, AppInv
<1>2. AppInv' /\ Keeps /\ Attached \subseteq Attached'
    BY <1>1, LockStep, LoadStep, PointerStep, LengthStep, ElementStep
<1>3. list'.len >= list.len
    <2>1. CASE StoreLength(w)
        BY <1>1, <2>1, LengthStep
    <2>2. CASE ~StoreLength(w)
        <3>1. list'.len = list.len /\ list.len \in Nat
            BY <1>1, <2>2 DEF Lock, LoadToAppend, StorePointer, StoreElement, AppInv, Types, Slices
        <3> QED
            BY <3>1
    <2> QED
        BY <2>1, <2>2
<1>4. \A i : \A v \in Attached : InSlot(list.array, i, v) => InSlot(list.array, i, v)'
    <2> SUFFICES ASSUME NEW i, NEW v \in Attached, InSlot(list.array, i, v)
                 PROVE  InSlot(list.array, i, v)'
        OBVIOUS
    <2>1. v # Empty
        BY ChainAssumption DEF Attached
    <2>2. CASE list'.array = list.array
        <3>1. InSlot(list.array, i, v) => \A a : a = list.array => InSlot(a, i, v)'
            BY <1>1, <1>2, <2>1, SlotKept DEF AppInv
        <3> QED
            BY <2>2, <3>1
    <2>3. CASE StorePointer(w)
        <3> DEFINE a == list.array
        <3>1. /\ Holds(a, list.len) /\ arrays' = arrays
              /\ \A j \in 1..list.len : arrays[list'.array][j] = arrays[a][j]
            BY <1>1, <2>3, PointerStep DEF StorePointer
        <3>2. PICK j \in 1..list.len : arrays[a][j] = v
            BY <3>1 DEF Holds
        <3>3. a \in 1..Len(arrays) /\ arrays[a] \in Seq(Appenders \cup {Empty})
              /\ list.len \in Nat /\ list.len <= Len(arrays[a])
            BY <1>1, <3>1 DEF AppInv, Types, Slices, Holds
        <3>4. i = j
            <4>1. Clean(a) /\ i \in DOMAIN arrays[a] /\ arrays[a][i] = v /\ j \in DOMAIN arrays[a]
                BY <1>1, <3>3 DEF AppInv, ListInv, InSlot
            <4> QED
                BY <2>1, <3>2, <4>1 DEF Clean
        <3>5. list'.array \in 1..Len(arrays) /\ list.len <= Len(arrays[list'.array])
            <4>1. Reserved(w) /\ seen[w].len = list.len + 1 /\ list'.array = seen[w].array
                BY <1>1, <2>3 DEF AppInv, ListInv, AppendInv, StorePointer, Types, Slices
            <4> QED
                BY <3>3, <4>1 DEF Reserved
        <3>6. arrays[list'.array] \in Seq(Appenders \cup {Empty})
            BY <1>1, <3>5 DEF AppInv, Types
        <3>7. i \in DOMAIN arrays[list'.array]
            BY <3>3, <3>4, <3>5, <3>6
        <3> QED
            BY <3>1, <3>2, <3>4, <3>5, <3>7 DEF InSlot
    <2>4. CASE ~StorePointer(w)
        BY <2>2, <2>4, <1>1, LengthStep DEF Lock, LoadToAppend, StoreElement
    <2> QED
        BY <2>3, <2>4
<1>5. ASSUME NEW r \in Readers
      PROVE  ReadInv(r)'
    <2>1. w # r /\ ReadInv(r)
        BY ChainAssumption DEF IInv
    <2>2. pc'[r] = pc[r] /\ seen'[r] = seen[r] /\ UNCHANGED <<copy, before>>
        BY <1>1, <2>1 DEF AppInv, Types, Goto,
            Lock, LoadToAppend, StorePointer, StoreLength, StoreElement
    <2>3. /\ pc'[r] # "idle" => \A v \in before'[r] : Ahead(r, v)'
          /\ Copied(r)'
        BY <1>1, <1>2, <1>3, <1>4, <2>1, <2>2, ReaderKept DEF AppInv
    <2>4. CASE Lock(w)
        BY <2>1, <2>2, <2>3, <2>4, <1>1 DEF ReadInv, Undisturbed, Lock, AppInv, Types
    <2>5. CASE ~Lock(w)
        <3>1. Appending # {} /\ overlapped'[r] = overlapped[r]
            BY <2>5 DEF Appending, LoadToAppend, StorePointer, StoreLength, StoreElement
        <3> QED
            BY <2>1, <2>2, <2>3, <3>1 DEF ReadInv, Undisturbed
    <2> QED
        BY <2>4, <2>5
<1> QED
    BY <1>2, <1>5 DEF IInv, AppInv

-----------------------------------------------------------------------------
(* The steps of a reader.                                                  *)

ReaderStep(r) == StartReading(r) \/ LoadLength(r) \/ LoadPointer(r) \/ CopySlot(r) \/ FinishReading(r)

\* A reader disturbs nobody else.
LEMMA ReadingDisturbsNone ==
    ASSUME IInv, NEW r \in Readers, ReaderStep(r)
    PROVE  /\ AppInv' /\ Appending' = Appending /\ Attached' = Attached
           /\ UNCHANGED <<arrays, list>>
           /\ \A q \in Readers : q # r => ReadInv(q)'
<1> USE DEF IInv, AppInv
<1>1. UNCHANGED <<arrays, list>>
    BY DEF ReaderStep, StartReading, LoadLength, LoadPointer, CopySlot, FinishReading
<1>2. \A c \in Appenders \cup Readers : c # r => pc'[c] = pc[c] /\ seen'[c] = seen[c]
    BY DEF Types, Goto, ReaderStep, StartReading, LoadLength, LoadPointer, CopySlot, FinishReading
<1>3. \A q \in Readers : q # r =>
          copy'[q] = copy[q] /\ before'[q] = before[q] /\ overlapped'[q] = overlapped[q]
    BY DEF Types, ReaderStep, StartReading, LoadLength, LoadPointer, CopySlot, FinishReading
<1>4. \A w \in Appenders : pc'[w] = pc[w] /\ seen'[w] = seen[w]
    BY <1>2, ChainAssumption
<1>5. Exclusive' /\ ListInv' /\ Appending' = Appending /\ Attached' = Attached
    BY <1>1, <1>4, AppendersRest
<1>6. Types'
    <2>1. CASE StartReading(r)
        <3> DEFINE disturbed == Appending # {}
        <3>1. disturbed \in BOOLEAN
            OBVIOUS
        <3>2. overlapped' = [overlapped EXCEPT ![r] = disturbed]
            BY <2>1 DEF StartReading
        <3> HIDE DEF disturbed
        <3>3. overlapped' \in [Readers -> BOOLEAN]
            BY <3>1, <3>2 DEF Types
        <3>4. before' \in [Readers -> SUBSET Appenders]
            BY <2>1 DEF StartReading, Types, Attached
        <3>5. /\ pc' \in [Appenders \cup Readers ->
                     {"idle", "load", "pointer", "length", "element", "copy", "done"}]
              /\ seen' \in [Appenders \cup Readers -> Slices]
            <4>1. PICK place \in {"length", "pointer"} : pc' = [pc EXCEPT ![r] = place]
                BY <2>1 DEF StartReading, Goto
            <4>2. \/ seen' = [seen EXCEPT ![r].array = list.array]
                  \/ seen' = [seen EXCEPT ![r].len = list.len]
                BY <2>1 DEF StartReading
            <4>3. seen' \in [Appenders \cup Readers -> Slices]
                <5>1. list.array \in Nat /\ list.len \in Nat /\ seen \in [Appenders \cup Readers -> Slices]
                    BY DEF Types, Slices
                <5>2. CASE seen' = [seen EXCEPT ![r].array = list.array]
                    BY <5>1, <5>2 DEF Slices
                <5>3. CASE seen' = [seen EXCEPT ![r].len = list.len]
                    BY <5>1, <5>3 DEF Slices
                <5> QED
                    BY <4>2, <5>2, <5>3
            <4> QED
                BY <4>1, <4>3 DEF Types
        <3>6. UNCHANGED <<arrays, list, copy>>
            BY <2>1 DEF StartReading
        <3> QED
            BY <3>3, <3>4, <3>5, <3>6 DEF Types
    <2>2. CASE LoadLength(r)
        BY <2>2 DEF LoadLength, Types, Goto, Slices
    <2>3. CASE LoadPointer(r)
        BY <2>3 DEF LoadPointer, Types, Goto, Slices
    <2>4. CASE CopySlot(r)
        <3> DEFINE slot == Slot(seen[r].array, Len(copy[r]) + 1)
        <3>1. slot \in Appenders \cup {Empty, Wild}
            <4>1. ReadInv(r) /\ seen[r].array \in 1..Len(arrays)
                BY <2>4 DEF CopySlot, ReadInv, Copied
            <4>2. arrays[seen[r].array] \in Seq(Appenders \cup {Empty})
                BY <4>1 DEF Types
            <4> QED
                BY <4>2 DEF Slot
        <3>2. copy' = [copy EXCEPT ![r] = Append(copy[r], slot)]
            BY <2>4 DEF CopySlot
        <3> HIDE DEF slot
        <3>3. copy' \in [Readers -> Seq(Appenders \cup {Empty, Wild})]
            BY <3>1, <3>2 DEF Types
        <3> QED
            BY <2>4, <3>3 DEF CopySlot, Types
    <2>5. CASE FinishReading(r)
        BY <2>5 DEF FinishReading, Types, Goto
    <2> QED
        BY <2>1, <2>2, <2>3, <2>4, <2>5 DEF ReaderStep
<1>7. ASSUME NEW q \in Readers, q # r
      PROVE  ReadInv(q)'
    <2>1. Keeps /\ list'.len >= list.len
        BY <1>1 DEF Keeps, Types, Slices
    <2>2. \A i : \A w \in Attached : InSlot(list.array, i, w) => InSlot(list.array, i, w)'
        BY <1>1 DEF InSlot
    <2>3. ReadInv(q) /\ pc'[q] = pc[q] /\ seen'[q] = seen[q]
        BY <1>2, <1>7
    <2>4. /\ pc'[q] # "idle" => \A w \in before'[q] : Ahead(q, w)'
          /\ Copied(q)'
        BY <1>3, <1>5, <1>6, <1>7, <2>1, <2>2, <2>3, ReaderKept
    <2> QED
        BY <1>1, <1>3, <1>5, <1>7, <2>3, <2>4 DEF ReadInv, Undisturbed
<1> QED
    BY <1>1, <1>5, <1>6, <1>7

LEMMA StartStep ==
    ASSUME IInv, NEW r \in Readers, StartReading(r)
    PROVE  ReadInv(r)'
<1> USE DEF IInv
<1>1. /\ pc[r] = "idle" /\ copy[r] = <<>> /\ copy' = copy
      /\ before'[r] = Attached /\ overlapped'[r] = (Appending # {})
      /\ UNCHANGED <<arrays, list>>
      /\ Attached' = Attached /\ Appending' = Appending
    <2>1. Attached' = Attached /\ Appending' = Appending
        BY ReadingDisturbsNone DEF ReaderStep
    <2> QED
        BY <2>1 DEF StartReading, Types, ReadInv, Copied
<1>2. \/ pc'[r] = "length" /\ seen'[r].array = list.array
      \/ pc'[r] = "pointer" /\ seen'[r].len = list.len
    BY DEF StartReading, Types, Goto, Slices
<1>3. \A w \in Attached : Ahead(r, w)'
    BY <1>1, <1>2, Committed DEF Ahead, InSlot, AppInv
<1>4. Copied(r)'
    BY <1>1, <1>2 DEF Copied, Types
<1>5. Undisturbed(r)'
    <2>1. CASE Appending = {}
        BY <1>1, <1>2, <2>1 DEF Undisturbed
    <2>2. CASE Appending # {}
        <3>1. overlapped'[r] = TRUE
            BY <1>1, <2>2
        <3> QED
            BY <3>1 DEF Undisturbed
    <2> QED
        BY <2>1, <2>2
<1> QED
    BY <1>1, <1>2, <1>3, <1>4, <1>5 DEF ReadInv

LEMMA SecondLoadStep ==
    ASSUME IInv, NEW r \in Readers, LoadLength(r) \/ LoadPointer(r)
    PROVE  ReadInv(r)'
<1> USE DEF IInv
<1>1. /\ pc[r] \in {"length", "pointer"} /\ pc'[r] = "copy"
      /\ copy[r] = <<>> /\ UNCHANGED <<copy, before, overlapped, arrays, list>>
      /\ Attached' = Attached /\ Appending' = Appending
    <2>1. Attached' = Attached /\ Appending' = Appending
        BY ReadingDisturbsNone DEF ReaderStep
    <2> QED
        BY <2>1 DEF LoadLength, LoadPointer, Goto, Types, ReadInv, Copied
<1>2. /\ pc[r] = "length" => seen'[r].len = list.len /\ seen'[r].array = seen[r].array
      /\ pc[r] = "pointer" => seen'[r].len = seen[r].len /\ seen'[r].array = list.array
    BY DEF LoadLength, LoadPointer, Types, Slices
<1>3. \A w \in before[r] : Ahead(r, w)'
    BY <1>1, <1>2 DEF ReadInv, Ahead, InSlot
<1>4. Copied(r)'
    <2>1. seen'[r].array \in 1..Len(arrays)
        BY <1>1, <1>2 DEF ReadInv, Copied, Types
    <2>2. seen'[r].len \in Nat
        BY <1>1, <1>2 DEF Types, Slices
    <2> QED
        BY <1>1, <2>1, <2>2 DEF Copied
<1>5. Undisturbed(r)'
    BY <1>1, <1>2 DEF ReadInv, Undisturbed
<1> QED
    BY <1>1, <1>3, <1>4, <1>5 DEF ReadInv

LEMMA CopyStep ==
    ASSUME IInv, NEW r \in Readers, CopySlot(r)
    PROVE  ReadInv(r)'
<1> USE DEF IInv
<1> DEFINE a == seen[r].array
           n == Len(copy[r]) + 1
<1>1. /\ pc[r] = "copy" /\ pc'[r] = "copy" /\ Len(copy[r]) < seen[r].len
      /\ UNCHANGED <<seen, before, overlapped, arrays, list>>
      /\ Attached' = Attached /\ Appending' = Appending
      /\ copy'[r] = Append(copy[r], Slot(a, n))
      /\ copy[r] \in Seq(Appenders \cup {Empty, Wild})
      /\ seen[r].len \in Nat
      /\ a \in 1..Len(arrays) /\ ReadInv(r)
    <2>1. Attached' = Attached /\ Appending' = Appending
        BY ReadingDisturbsNone DEF ReaderStep
    <2> QED
        BY <2>1 DEF CopySlot, Types, ReadInv, Copied, Slices
<1> HIDE DEF a
<1>2. /\ n \in Nat /\ n <= seen[r].len /\ Len(copy'[r]) = n
      /\ DOMAIN copy[r] = 1..Len(copy[r]) /\ DOMAIN copy'[r] = 1..n
      /\ \A i \in DOMAIN copy'[r] : IF i = n THEN copy'[r][i] = Slot(a, n)
                                    ELSE i \in DOMAIN copy[r] /\ copy'[r][i] = copy[r][i]
    BY <1>1
<1> HIDE DEF n
<1>3. ASSUME NEW w \in before[r]
      PROVE  Ahead(r, w)'
    <2>1. PICK i \in 1..seen[r].len : InSlot(a, i, w) /\ (i \in DOMAIN copy[r] => copy[r][i] = w)
        BY <1>1 DEF ReadInv, Ahead, a
    <2>2. i \in DOMAIN copy'[r] => copy'[r][i] = w
        BY <1>2, <2>1 DEF InSlot, Slot
    <2>3. InSlot(seen[r].array, i, w)'
        BY <1>1, <2>1 DEF InSlot, a
    <2>4. w \in Attached
        BY <1>1 DEF ReadInv, Ahead
    <2> QED
        BY <1>1, <2>1, <2>2, <2>3, <2>4 DEF Ahead
<1>4. Copied(r)'
    <2>1. \A i \in DOMAIN copy'[r] :
              copy'[r][i] \in {Empty, Wild} \/ InSlot(a, i, copy'[r][i])
        BY <1>1, <1>2 DEF ReadInv, Copied, InSlot, Slot, a
    <2> QED
        BY <1>1, <1>2, <2>1 DEF Copied, InSlot, a
<1>5. Undisturbed(r)'
    <2> SUFFICES ASSUME ~overlapped[r]
                 PROVE  /\ Appending = {} /\ a = list.array /\ seen[r].len = list.len
                        /\ \A i \in DOMAIN copy'[r] : copy'[r][i] \notin {Empty, Wild}
        BY <1>1 DEF Undisturbed, a
    <2>1. /\ Appending = {} /\ a = list.array /\ seen[r].len = list.len
          /\ \A i \in DOMAIN copy[r] : copy[r][i] \notin {Empty, Wild}
        BY <1>1 DEF ReadInv, Undisturbed, a
    <2>2. Slot(a, n) \in Attached
        <3>1. Holds(a, list.len) /\ n \in 1..list.len
            BY <1>1, <1>2, <2>1 DEF ListInv
        <3>2. arrays[a] \in Seq(Appenders \cup {Empty})
            BY <1>1 DEF Types
        <3>3. n \in DOMAIN arrays[a]
            BY <3>1, <3>2 DEF Holds
        <3> QED
            BY <3>1, <3>3 DEF Slot, Holds
    <2>3. Slot(a, n) \notin {Empty, Wild}
        BY <2>2, ChainAssumption DEF Attached
    <2> QED
        BY <1>2, <2>1, <2>3
<1> QED
    BY <1>1, <1>3, <1>4, <1>5 DEF ReadInv

LEMMA FinishStep ==
    ASSUME IInv, NEW r \in Readers, FinishReading(r)
    PROVE  ReadInv(r)'
<1> USE DEF IInv
<1>1. /\ pc[r] = "copy" /\ pc'[r] = "done" /\ Len(copy[r]) = seen[r].len
      /\ UNCHANGED <<arrays, list, seen, copy, before, overlapped>>
      /\ Attached' = Attached /\ Appending' = Appending
    <2>1. Attached' = Attached /\ Appending' = Appending
        BY ReadingDisturbsNone DEF ReaderStep
    <2> QED
        BY <2>1 DEF FinishReading, Goto, Types
<1>2. ReadInv(r)
    OBVIOUS
<1>3. \A w \in before[r] : Ahead(r, w)'
    BY <1>1, <1>2 DEF ReadInv, Ahead, InSlot
<1>4. Copied(r)'
    BY <1>1, <1>2 DEF ReadInv, Copied, InSlot
<1>5. Undisturbed(r)'
    BY <1>1, <1>2 DEF ReadInv, Undisturbed
<1> QED
    BY <1>1, <1>3, <1>4, <1>5 DEF ReadInv

-----------------------------------------------------------------------------

LEMMA InitInv == Init => IInv
<1> SUFFICES ASSUME Init
             PROVE  IInv
    OBVIOUS
<1>1. /\ arrays = <<<<>>>> /\ Len(arrays) = 1 /\ arrays[1] = <<>>
      /\ list = [array |-> 1, len |-> 0]
      /\ Appending = {} /\ Attached = {}
    BY DEF Init, Appending, Attached
<1>2. Types
    BY <1>1 DEF Init, Types, Slices
<1>3. Holds(list.array, list.len)
    BY <1>1 DEF Holds
<1>4. Exclusive /\ ListInv
    BY <1>1, <1>3 DEF Init, Exclusive, ListInv, Clean, AppendInv
<1>5. \A r \in Readers : ReadInv(r)
    BY DEF Init, ReadInv, Copied, Undisturbed
<1> QED
    BY <1>2, <1>4, <1>5 DEF IInv

LEMMA NextInv == IInv /\ [Next]_vars => IInv'
<1> SUFFICES ASSUME IInv, [Next]_vars
             PROVE  IInv'
    OBVIOUS
<1>1. ASSUME NEW w \in Appenders,
             Lock(w) \/ LoadToAppend(w) \/ StorePointer(w) \/ StoreLength(w) \/ StoreElement(w)
      PROVE  IInv'
    BY <1>1, AppendDisturbsNone
<1>2. ASSUME NEW r \in Readers, ReaderStep(r)
      PROVE  IInv'
    <2>1. ReadInv(r)'
        BY <1>2, StartStep, SecondLoadStep, CopyStep, FinishStep DEF ReaderStep
    <2> QED
        BY <1>2, <2>1, ReadingDisturbsNone DEF IInv, AppInv
<1>3. CASE UNCHANGED vars
    <2>1. AppInv /\ UNCHANGED <<arrays, list, pc, seen, copy, before, overlapped>>
        BY <1>3 DEF vars, IInv, AppInv
    <2>2. Exclusive' /\ ListInv' /\ Appending' = Appending /\ Attached' = Attached
        BY <2>1, AppendersRest
    <2>3. Types'
        BY <2>1 DEF AppInv, Types
    <2>4. \A r \in Readers : ReadInv(r)'
        BY <2>1, <2>2 DEF IInv, ReadInv, Ahead, Copied, Undisturbed, InSlot
    <2> QED
        BY <2>2, <2>3, <2>4 DEF IInv
<1> QED
    BY <1>1, <1>2, <1>3 DEF Next, ReaderStep

LEMMA Invariance == Spec => []IInv
BY InitInv, NextInv, PTL DEF Spec

\* Appends under the lock of the registry lose nothing, however often they move the
\* list to a larger array and whoever reads it meanwhile.
THEOREM AppendsAreKept == Spec => []NothingLost
<1>1. IInv => NothingLost
    BY Committed DEF IInv, AppInv, NothingLost, InSlot, Slot
<1> QED
    BY <1>1, Invariance, PTL

\* Whoever copies a list without the lock still copies all advice attached before,
\* and none twice: an array is only ever extended, and the length and the pointer it
\* loads are never those of a list that lacks such advice.
THEOREM CopiesAreComplete == Spec => []ReaderComplete
<1>1. ASSUME IInv, NEW r \in Readers, pc[r] = "done"
      PROVE  /\ before[r] \subseteq Range(copy[r])
             /\ \A i, j \in DOMAIN copy[r] :
                   i # j /\ copy[r][i] = copy[r][j] => copy[r][i] \in {Empty, Wild}
    <2>1. ReadInv(r) /\ Types
        BY <1>1 DEF IInv
    <2>2. DOMAIN copy[r] = 1..seen[r].len
        BY <1>1, <2>1 DEF ReadInv, Copied, Types
    <2>3. ASSUME NEW w \in before[r]
          PROVE  w \in Range(copy[r])
        <3>1. PICK i \in 1..seen[r].len : i \in DOMAIN copy[r] => copy[r][i] = w
            BY <1>1, <2>1 DEF ReadInv, Ahead
        <3> QED
            BY <2>2, <3>1 DEF Range
    <2>4. ASSUME NEW i \in DOMAIN copy[r], NEW j \in DOMAIN copy[r],
                 i # j, copy[r][i] = copy[r][j], copy[r][i] \notin {Empty, Wild}
          PROVE  FALSE
        <3>1. InSlot(seen[r].array, i, copy[r][i]) /\ InSlot(seen[r].array, j, copy[r][i])
            BY <2>1, <2>4 DEF ReadInv, Copied
        <3>2. Clean(seen[r].array)
            BY <1>1, <3>1 DEF IInv, ListInv, InSlot
        <3> QED
            BY <2>4, <3>1, <3>2 DEF Clean, InSlot
    <2> QED
        BY <2>3, <2>4
<1>2. IInv => ReaderComplete
    BY <1>1 DEF ReaderComplete
<1> QED
    BY <1>2, Invariance, PTL

\* A call that meets a slot without a handler has copied the list while AddAdvice was
\* appending to it: a chain that is complete before it is called is read as it is.
THEOREM QuietCopiesAreWhole == Spec => []TornOnlyDuringAppend
<1>1. IInv => TornOnlyDuringAppend
    BY DEF IInv, ReadInv, Undisturbed, TornOnlyDuringAppend, Range
<1> QED
    BY <1>1, Invariance, PTL
=============================================================================
