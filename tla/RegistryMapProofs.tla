-------------------------- MODULE RegistryMapProofs --------------------------
(***************************************************************************)
(* Lemmas about chains, sorted copies of their lists, contexts and the     *)
(* methods of the registry.                                                *)
(***************************************************************************)
EXTENDS RegistryMap, TLAPS, SequenceTheorems, FiniteSetTheorems

-----------------------------------------------------------------------------
(* Types.                                                                  *)

LEMMA NewChainType == NewAdviceChain \in AdviceChain
BY DEF NewAdviceChain, AdviceChain, AdviceTypes

LEMMA AddType ==
    ASSUME NEW chain \in AdviceChain, NEW a \in Advice
    PROVE  Add(chain, a) \in AdviceChain
<1>1. CASE a.type \notin AdviceTypes
    BY <1>1 DEF Add
<1>2. CASE a.type \in AdviceTypes
    <2> DEFINE new == [chain EXCEPT ![a.type] = Append(@, a)]
    <2>1. Add(chain, a) = new
        BY <1>2 DEF Add
    <2>2. chain \in [AdviceTypes -> Seq(Advice)]
        BY DEF AdviceChain
    <2>3. new \in [AdviceTypes -> Seq(Advice)]
        <3>1. Append(chain[a.type], a) \in Seq(Advice)
            BY <1>2, <2>2, AppendProperties
        <3> QED
            BY <1>2, <2>2, <3>1
    <2>4. ASSUME NEW t \in AdviceTypes, NEW i \in DOMAIN new[t]
          PROVE  new[t][i].type = t
        <3>1. CASE t # a.type
            BY <3>1, <2>2 DEF AdviceChain
        <3>2. CASE t = a.type
            <4>1. new[t] = Append(chain[t], a) /\ chain[t] \in Seq(Advice)
                BY <3>2, <2>2
            <4>2. /\ DOMAIN new[t] = 1..(Len(chain[t]) + 1)
                  /\ \A k \in 1..Len(chain[t]) : new[t][k] = chain[t][k]
                  /\ new[t][Len(chain[t]) + 1] = a
                BY <4>1
            <4>3. \A k \in 1..Len(chain[t]) : chain[t][k].type = t
                BY <4>1 DEF AdviceChain
            <4>4. Len(chain[t]) \in Nat
                BY <4>1
            <4> QED
                BY <4>2, <4>3, <4>4, <3>2
        <3> QED
            BY <3>1, <3>2
    <2> QED
        BY <2>1, <2>3, <2>4 DEF AdviceChain
<1> QED
    BY <1>1, <1>2

LEMMA WithNewChainType ==
    ASSUME NEW r \in RegistryRecord, NEW name \in Names
    PROVE  /\ WithNewChain(r, name) \in RegistryRecord
           /\ Len(WithNewChain(r, name).chains) = Len(r.chains) + 1
<1>1. r.chains \in Seq(AdviceChain) /\ r.entries \in [Names -> Nat] /\ Len(r.chains) \in Nat
    BY DEF RegistryRecord
<1>2. /\ Append(r.chains, NewAdviceChain) \in Seq(AdviceChain)
      /\ Len(Append(r.chains, NewAdviceChain)) = Len(r.chains) + 1
    BY <1>1, NewChainType
<1>3. \A n \in Names : r.entries[n] \in 0..Len(r.chains)
    BY DEF RegistryRecord
<1> DEFINE entries == [r.entries EXCEPT ![name] = Len(r.chains) + 1]
           chains  == Append(r.chains, NewAdviceChain)
<1>4. entries \in [Names -> Nat]
    BY <1>1
<1>5. \A n \in Names : entries[n] \in 0..Len(chains)
    BY <1>1, <1>2, <1>3
<1>6. WithNewChain(r, name) = [entries |-> entries, chains |-> chains]
    BY DEF WithNewChain
<1> HIDE DEF entries, chains
<1>7. [entries |-> entries, chains |-> chains] \in RegistryRecord
    BY <1>2, <1>4, <1>5 DEF RegistryRecord, chains
<1> QED
    BY <1>2, <1>6, <1>7 DEF chains

LEMMA AddToType ==
    ASSUME NEW r \in RegistryRecord, NEW i \in 1..Len(r.chains), NEW a \in Advice
    PROVE  /\ AddTo(r, i, a) \in RegistryRecord
           /\ Len(AddTo(r, i, a).chains) = Len(r.chains)
<1>1. r.chains \in Seq(AdviceChain) /\ r.entries \in [Names -> Nat] /\ Len(r.chains) \in Nat
    BY DEF RegistryRecord
<1>2. r.chains[i] \in AdviceChain
    BY <1>1
<1>3. Add(r.chains[i], a) \in AdviceChain
    BY <1>2, AddType
<1> DEFINE new == [r.chains EXCEPT ![i] = Add(@, a)]
<1>4. new \in Seq(AdviceChain) /\ Len(new) = Len(r.chains)
    BY <1>1, <1>3
<1>5. \A n \in Names : r.entries[n] \in 0..Len(r.chains)
    BY DEF RegistryRecord
<1>6. AddTo(r, i, a) = [entries |-> r.entries, chains |-> new]
    BY DEF AddTo, RegistryRecord
<1> QED
    BY <1>1, <1>4, <1>5, <1>6 DEF RegistryRecord

LEMMA CountType ==
    ASSUME NEW c \in AdviceChain
    PROVE  Count(c) \in Nat
<1> DEFINE b == Len(c["Before"])
           f == Len(c["After"])
           o == Len(c["Around"])
           r == Len(c["AfterReturning"])
           t == Len(c["AfterThrowing"])
<1>1. b \in Nat /\ f \in Nat /\ o \in Nat /\ r \in Nat /\ t \in Nat
    BY DEF AdviceChain, AdviceTypes
<1>2. Count(c) = b + f + o + r + t
    BY DEF Count
<1> HIDE DEF b, f, o, r, t
<1> QED
    BY <1>1, <1>2

LEMMA ReplyTypes ==
    /\ Ok \in Reply
    /\ \A why \in Failures : Failed(why) \in Reply
    /\ \A k \in Nat : [Ok EXCEPT !.chain = k] \in Reply /\ [Ok EXCEPT !.count = k] \in Reply
    /\ \A S \in SUBSET Names : [Ok EXCEPT !.names = S] \in Reply
    /\ \A b \in BOOLEAN : [Ok EXCEPT !.found = b] \in Reply
BY DEF Ok, Failed, Failures, Reply, NoChain

\* What a method may do to the registry: keep it well-formed, never lose a chain
\* that was allocated, and reply.
WellDone(r, result) ==
    /\ result.reg \in RegistryRecord
    /\ Len(result.reg.chains) >= Len(r.chains)
    /\ result.reply \in Reply

LEMMA WellDoneResult ==
    ASSUME NEW r \in RegistryRecord
    PROVE  \A new \in RegistryRecord, reply \in Reply :
              Len(new.chains) >= Len(r.chains) => WellDone(r, Result(new, reply))
BY DEF WellDone, Result

LEMMA RegisterType ==
    ASSUME NEW r \in RegistryRecord, NEW name \in Names, NEW chain \in 0..Len(r.chains)
    PROVE  /\ WellDone(r, Register(r, name, chain))
           /\ WellDone(r, RegisterOrGet(r, name, chain))
           /\ WellDone(r, MustRegister(r, name, chain))
<1>1. Len(r.chains) \in Nat
    BY DEF RegistryRecord
<1>2. WithNewChain(r, name) \in RegistryRecord
      /\ Len(WithNewChain(r, name).chains) = Len(r.chains) + 1
    BY WithNewChainType
<1>3. chain \in Nat /\ Len(r.chains) + 1 \in Nat
    BY <1>1
<1>4. /\ Failed("empty name") \in Reply /\ Failed("already registered") \in Reply
      /\ Failed("panic") \in Reply
    BY ReplyTypes DEF Failures
<1>0. /\ \A reply \in Reply : WellDone(r, Result(r, reply))
      /\ \A reply \in Reply : WellDone(r, Result(WithNewChain(r, name), reply))
    BY <1>1, <1>2, WellDoneResult
<1>5. WellDone(r, Register(r, name, chain))
    BY <1>0, <1>4, ReplyTypes DEF Register
<1>6. WellDone(r, RegisterOrGet(r, name, chain))
    <2>1. [Ok EXCEPT !.chain = chain] \in Reply /\ [Ok EXCEPT !.chain = Len(r.chains) + 1] \in Reply
        BY <1>3, ReplyTypes
    <2> QED
        BY <1>0, <1>4, <2>1 DEF RegisterOrGet
<1>7. WellDone(r, Must(Register(r, name, chain)))
    <2> DEFINE result == Register(r, name, chain)
    <2>1. result \in [reg : RegistryRecord, reply : Reply]
        BY <1>5, <1>2, <1>4, ReplyTypes DEF WellDone, Register, Result
    <2> HIDE DEF result
    <2>2. WellDone(r, result) => WellDone(r, Must(result))
        BY <2>1, <1>4 DEF WellDone, Must
    <2> QED
        BY <2>2, <1>5 DEF result
<1> QED
    BY <1>5, <1>6, <1>7 DEF MustRegister

LEMMA AddAdviceType ==
    ASSUME NEW r \in RegistryRecord, NEW name \in Names, NEW chain \in 0..Len(r.chains),
           NEW a \in Advice
    PROVE  /\ WellDone(r, AddAdvice(r, name, a, chain))
           /\ WellDone(r, MustAddAdvice(r, name, a, chain))
<1>1. Len(r.chains) \in Nat
    BY DEF RegistryRecord
<1>2. chain # NoChain =>
         AddTo(r, chain, a) \in RegistryRecord /\ Len(AddTo(r, chain, a).chains) = Len(r.chains)
    BY <1>1, AddToType DEF NoChain
<1>3. /\ Failed("empty name") \in Reply /\ Failed("not registered") \in Reply
      /\ Failed("panic") \in Reply
    BY ReplyTypes DEF Failures
<1>0. /\ \A reply \in Reply : WellDone(r, Result(r, reply))
      /\ chain # NoChain => \A reply \in Reply : WellDone(r, Result(AddTo(r, chain, a), reply))
    BY <1>1, <1>2, WellDoneResult
<1>4. WellDone(r, AddAdvice(r, name, a, chain))
    BY <1>0, <1>3, ReplyTypes DEF AddAdvice
<1>5. WellDone(r, Must(AddAdvice(r, name, a, chain)))
    <2> DEFINE result == AddAdvice(r, name, a, chain)
    <2>1. result \in [reg : RegistryRecord, reply : Reply]
        BY <1>2, <1>3, ReplyTypes DEF AddAdvice, Result
    <2> HIDE DEF result
    <2>2. WellDone(r, result) => WellDone(r, Must(result))
        BY <2>1, <1>3 DEF WellDone, Must
    <2> QED
        BY <2>2, <1>4 DEF result
<1> QED
    BY <1>4, <1>5 DEF MustAddAdvice

LEMMA RemoveType ==
    ASSUME NEW r \in RegistryRecord, NEW name \in Names
    PROVE  WellDone(r, Unregister(r, name)) /\ WellDone(r, Clear(r))
<1>1. /\ r.chains \in Seq(AdviceChain) /\ r.entries \in [Names -> Nat] /\ Len(r.chains) \in Nat
      /\ \A n \in Names : r.entries[n] \in 0..Len(r.chains)
      /\ r \in [entries : [Names -> Nat], chains : Seq(AdviceChain)]
    BY DEF RegistryRecord
<1>2. \A e \in [Names -> Nat] :
         (\A n \in Names : e[n] \in 0..Len(r.chains)) =>
             [entries |-> e, chains |-> r.chains] \in RegistryRecord
    BY <1>1 DEF RegistryRecord
<1>3. WellDone(r, Unregister(r, name))
    <2> DEFINE e == [r.entries EXCEPT ![name] = NoChain]
    <2>1. e \in [Names -> Nat] /\ \A n \in Names : e[n] \in 0..Len(r.chains)
        BY <1>1 DEF NoChain
    <2>2. [r EXCEPT !.entries[name] = NoChain] = [entries |-> e, chains |-> r.chains]
        BY <1>1
    <2>3. Unregister(r, name) = [reg |-> [entries |-> e, chains |-> r.chains], reply |-> Ok]
        BY <2>2 DEF Unregister, Result
    <2> HIDE DEF e
    <2> QED
        BY <1>1, <1>2, <2>1, <2>3, ReplyTypes DEF WellDone
<1>4. WellDone(r, Clear(r))
    <2> DEFINE e == [n \in Names |-> NoChain]
    <2>1. e \in [Names -> Nat] /\ \A n \in Names : e[n] \in 0..Len(r.chains)
        BY <1>1 DEF NoChain
    <2>2. Clear(r) = [reg |-> [entries |-> e, chains |-> r.chains], reply |-> Ok]
        BY <1>1 DEF Clear, Result
    <2> HIDE DEF e
    <2> QED
        BY <1>1, <1>2, <2>1, <2>2, ReplyTypes DEF WellDone
<1> QED
    BY <1>3, <1>4

LEMMA QueryType ==
    ASSUME NEW r \in RegistryRecord, NEW name \in Names, NEW chain \in 0..Len(r.chains)
    PROVE  /\ WellDone(r, GetAdviceChain(r, name, chain))
           /\ WellDone(r, IsRegistered(r, name, chain))
           /\ WellDone(r, GetAdviceCount(r, name, chain))
           /\ WellDone(r, ListRegistered(r))
           /\ WellDone(r, CountRegistered(r))
<1>1. r.chains \in Seq(AdviceChain) /\ Len(r.chains) \in Nat /\ chain \in Nat
    BY DEF RegistryRecord
<1>2. \A reply \in Reply : WellDone(r, Result(r, reply))
    BY <1>1 DEF WellDone, Result
<1>3. WellDone(r, GetAdviceChain(r, name, chain))
    BY <1>1, <1>2, ReplyTypes DEF GetAdviceChain, Failures
<1>4. WellDone(r, IsRegistered(r, name, chain))
    BY <1>2, ReplyTypes DEF IsRegistered
<1>5. WellDone(r, GetAdviceCount(r, name, chain))
    <2>1. CASE chain = NoChain
        BY <2>1, <1>2, ReplyTypes DEF GetAdviceCount
    <2>2. CASE chain # NoChain
        <3>1. r.chains[chain] \in AdviceChain
            BY <2>2, <1>1 DEF NoChain
        <3>2. Count(r.chains[chain]) \in Nat
            BY <3>1, CountType
        <3> QED
            BY <2>2, <3>2, <1>2, ReplyTypes DEF GetAdviceCount
    <2> QED
        BY <2>1, <2>2
<1>6. Registered(r) \in SUBSET Names
    BY DEF Registered
<1>7. WellDone(r, ListRegistered(r))
    BY <1>2, <1>6, ReplyTypes DEF ListRegistered
<1>8. WellDone(r, CountRegistered(r))
    <2>1. Cardinality(Registered(r)) \in Nat
        BY <1>6, NamesAssumption, FS_Subset, FS_CardinalityType
    <2> QED
        BY <1>2, <2>1, ReplyTypes DEF CountRegistered
<1> QED
    BY <1>3, <1>4, <1>5, <1>7, <1>8

-----------------------------------------------------------------------------
(* Sorted copies.                                                          *)

\* A sorted copy has the elements of the list, all of them, in descending order.
LEMMA SortedCopyElements ==
    ASSUME NEW S, NEW list \in Seq(S), NEW copy \in SortedCopies(list)
    PROVE  /\ copy \in Seq(S)
           /\ Len(copy) = Len(list)
           /\ \A k \in DOMAIN list : \E m \in DOMAIN copy : copy[m] = list[k]
           /\ \A m \in DOMAIN copy : \E k \in DOMAIN list : copy[m] = list[k]
           /\ Descending(copy)
<1> DEFINE n == Len(list)
<1>1. n \in Nat /\ DOMAIN list = 1..n
    OBVIOUS
<1>2. PICK perm \in Bijection(1..n, 1..n) : copy = [i \in 1..n |-> list[perm[i]]]
    BY DEF SortedCopies
<1>3. /\ perm \in [1..n -> 1..n]
      /\ \A k \in 1..n : \E m \in 1..n : perm[m] = k
    BY DEF Bijection, Injection, Surjection
<1>4. copy \in [1..n -> S]
    BY <1>1, <1>2, <1>3
<1>5. copy \in Seq(S) /\ Len(copy) = n /\ DOMAIN copy = 1..n
    BY <1>1, <1>4, SeqDef, LenProperties
<1>6. Descending(copy)
    BY DEF SortedCopies
<1> QED
    BY <1>1, <1>2, <1>3, <1>5, <1>6

-----------------------------------------------------------------------------
(* Chains only grow.                                                       *)

\* Every list of chain c is a prefix of the same list of chain d.
Grown(c, d) ==
    \A t \in AdviceTypes : \A k \in DOMAIN c[t] : k \in DOMAIN d[t] /\ d[t][k] = c[t][k]

\* No allocated chain has lost advice from registry r to registry s.
RegistryGrown(r, s) ==
    /\ Len(r.chains) <= Len(s.chains)
    /\ \A i \in 1..Len(r.chains) : Grown(r.chains[i], s.chains[i])

LEMMA AddGrows ==
    ASSUME NEW c \in AdviceChain, NEW a \in Advice
    PROVE  Grown(c, Add(c, a))
<1>1. CASE a.type \notin AdviceTypes
    BY <1>1 DEF Add, Grown
<1>2. CASE a.type \in AdviceTypes
    <2>1. c \in [AdviceTypes -> Seq(Advice)]
        BY DEF AdviceChain
    <2>2. Add(c, a) = [c EXCEPT ![a.type] = Append(@, a)]
        BY <1>2 DEF Add
    <2>3. ASSUME NEW t \in AdviceTypes, NEW k \in DOMAIN c[t]
          PROVE  k \in DOMAIN Add(c, a)[t] /\ Add(c, a)[t][k] = c[t][k]
        <3>1. CASE t # a.type
            BY <3>1, <2>1, <2>2
        <3>2. CASE t = a.type
            <4>1. Add(c, a)[t] = Append(c[t], a) /\ c[t] \in Seq(Advice)
                BY <3>2, <2>1, <2>2
            <4> QED
                BY <4>1
        <3> QED
            BY <3>1, <3>2
    <2> QED
        BY <2>3 DEF Grown
<1> QED
    BY <1>1, <1>2

LEMMA MethodsGrow ==
    ASSUME NEW r \in RegistryRecord, NEW name \in Names
    PROVE  /\ RegistryGrown(r, r)
           /\ RegistryGrown(r, WithNewChain(r, name))
           /\ \A i \in 1..Len(r.chains), a \in Advice : RegistryGrown(r, AddTo(r, i, a))
           /\ RegistryGrown(r, Unregister(r, name).reg)
           /\ RegistryGrown(r, Clear(r).reg)
<1>1. /\ r \in [entries : [Names -> Nat], chains : Seq(AdviceChain)]
      /\ r.chains \in Seq(AdviceChain) /\ Len(r.chains) \in Nat
      /\ \A i \in 1..Len(r.chains) : r.chains[i] \in AdviceChain
    BY DEF RegistryRecord
<1>2. \A c : Grown(c, c)
    BY DEF Grown
<1>3. \A s : s.chains = r.chains => RegistryGrown(r, s)
    BY <1>1, <1>2 DEF RegistryGrown
<1>4. RegistryGrown(r, WithNewChain(r, name))
    <2> DEFINE new == Append(r.chains, NewAdviceChain)
    <2>1. WithNewChain(r, name).chains = new
        BY DEF WithNewChain
    <2>2. /\ Len(new) = Len(r.chains) + 1
          /\ \A i \in 1..Len(r.chains) : new[i] = r.chains[i]
        BY <1>1, NewChainType, AppendProperties
    <2> HIDE DEF new
    <2> QED
        BY <1>1, <1>2, <2>1, <2>2 DEF RegistryGrown
<1>5. ASSUME NEW i \in 1..Len(r.chains), NEW a \in Advice
      PROVE  RegistryGrown(r, AddTo(r, i, a))
    <2> DEFINE new == [r.chains EXCEPT ![i] = Add(@, a)]
    <2>1. AddTo(r, i, a).chains = new
        BY <1>1 DEF AddTo
    <2>2. /\ Len(new) = Len(r.chains)
          /\ \A j \in 1..Len(r.chains) : new[j] = IF j = i THEN Add(r.chains[i], a) ELSE r.chains[j]
        BY <1>1
    <2>3. Grown(r.chains[i], Add(r.chains[i], a))
        BY <1>1, AddGrows
    <2> HIDE DEF new
    <2> QED
        BY <1>1, <1>2, <2>1, <2>2, <2>3 DEF RegistryGrown
<1>6. Unregister(r, name).reg.chains = r.chains /\ Clear(r).reg.chains = r.chains
    BY <1>1 DEF Unregister, Clear, Result
<1> QED
    BY <1>3, <1>4, <1>5, <1>6
=============================================================================
