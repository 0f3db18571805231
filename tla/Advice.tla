------------------------------- MODULE Advice -------------------------------
(***************************************************************************)
(* aspect/advice.go: pieces of advice, the chain that keeps them by type,  *)
(* and the order in which one list of a chain is run.                      *)
(*                                                                         *)
(* A piece of advice is the record [type, priority, id].  The handler is   *)
(* opaque Go code, so id stands for it: what a handler does when it is     *)
(* called is chosen in module Weave.                                       *)
(***************************************************************************)
EXTENDS Integers, Sequences, Functions

CONSTANT AdviceIds      \* the handlers

\* The five declared constants of type AdviceType.
AdviceTypes == {"Before", "After", "Around", "AfterReturning", "AfterThrowing"}

\* AdviceType is a defined int, so a caller can also pass a value that is none
\* of the five constants; all such values behave alike.
Undeclared == "Undeclared"

Advice ==
    [type : AdviceTypes \cup {Undeclared}, priority : Int, id : AdviceIds]

AdviceChain ==
    {c \in [AdviceTypes -> Seq(Advice)] :
        \A t \in AdviceTypes : \A i \in DOMAIN c[t] : c[t][i].type = t}

NewAdviceChain == [t \in AdviceTypes |-> <<>>]

\* The switch has no default: advice of an undeclared type is dropped.
Add(chain, a) ==
    IF a.type \in AdviceTypes
    THEN [chain EXCEPT ![a.type] = Append(@, a)]
    ELSE chain

HasAround(chain) == chain["Around"] # <<>>

Count(chain) ==
    Len(chain["Before"]) + Len(chain["After"]) + Len(chain["Around"])
        + Len(chain["AfterReturning"]) + Len(chain["AfterThrowing"])

\* Faulty: the comparison is the wrong way round.
Ascending(list) ==
    \A i, j \in DOMAIN list : i < j => list[i].priority <= list[j].priority

Descending(list) ==
    \A i, j \in DOMAIN list : i < j => list[i].priority >= list[j].priority

\* The copies of list that sort.Slice can produce.  It is not a stable sort, so
\* advice of equal priority can come out in any order.
SortedCopies(list) ==
    {copy \in {[i \in 1..Len(list) |-> list[p[i]]] :
                  p \in Bijection(1..Len(list), 1..Len(list))} :
        Descending(copy)}
=============================================================================
