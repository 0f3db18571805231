------------------------------ MODULE MCWeave -------------------------------
(***************************************************************************)
(* Instances of Weave for TLC: chains that start-up code attaches, and the *)
(* advice that is attached while calls run.                                *)
(***************************************************************************)
EXTENDS WeaveProperties

A(type, priority, id) == [type |-> type, priority |-> priority, id |-> id]

Seqs == INSTANCE SequencesExt

\* The chain that the start-up code builds with one Add per member of list.
ChainOf(list) == Seqs!FoldLeft(Add, NewAdviceChain, list)

\* The registry of a program whose start-up code registers one function and
\* attaches the advice of chain c to it.
RegistryWith(c) ==
    [entries |-> [n \in Names |-> IF n = EmptyName THEN NoChain ELSE 1], chains |-> <<c>>]

\* One handler of each type.
OneOfEach ==
    ChainOf(<<A("Before", 1, "b"), A("Around", 1, "o"), A("AfterReturning", 1, "r"),
              A("AfterThrowing", 1, "t"), A("After", 1, "f")>>)

\* Two handlers of some types, of different and of equal priority, attached in
\* ascending order of priority.
Layered ==
    {ChainOf(<<A("Before", 1, "b1"), A("Before", 2, "b2"), A("After", 1, "f1"), A("After", 2, "f2")>>),
     ChainOf(<<A("Around", 1, "o1"), A("Around", 1, "o2"),
               A("AfterReturning", 1, "r1"), A("AfterReturning", 2, "r2")>>),
     ChainOf(<<A("AfterThrowing", 1, "t1"), A("AfterThrowing", 2, "t2"), A("Before", 1, "b1"),
               A("After", 1, "f1")>>)}

FlowRegistries == {RegistryWith(c) : c \in {OneOfEach, NewAdviceChain} \cup Layered}

EffectRegistries ==
    {RegistryWith(OneOfEach),
     RegistryWith(ChainOf(<<A("Around", 1, "o"), A("After", 1, "f")>>))}

\* Advice that other goroutines attach while a call runs.
LateAdvice == {A("Around", 2, "o3"), A("After", 2, "f3"), A(Undeclared, 1, "u")}
=============================================================================
