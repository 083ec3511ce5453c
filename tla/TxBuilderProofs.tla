--------------------------- MODULE TxBuilderProofs ---------------------------
(***************************************************************************)
(* Proofs about TxBuilder, for every set of tasks, every pool size and       *)
(* capacity, all parameters and all chains of middlewares.                   *)
(***************************************************************************)
EXTENDS TxBuilder, Loops, FiniteSetTheorems, SequenceTheorems

-----------------------------------------------------------------------------
(* One pool and who holds what of it: the builders and the buffers are       *)
(* exchanged in the same way.                                                *)
Exclusive(pool, mine) ==
    /\ pool \in Seq(Ids)
    /\ Len(pool) <= PoolCapacity
    /\ IsInjective(pool)
    /\ mine \in [Tasks -> Ids \cup {NoId}]
    /\ \A t, u \in Tasks : t # u /\ mine[t] # NoId => mine[t] # mine[u]
    /\ \A t \in Tasks : mine[t] \notin ToSet(pool)

(* While one task holds nothing, the others do not hold all there is: an      *)
(* allocation finds memory nobody holds.                                     *)
LEMMA FreshIsFree ==
    ASSUME NEW mine, mine \in [Tasks -> Ids \cup {NoId}],
           NEW t \in Tasks, mine[t] = NoId
    PROVE  Fresh(mine) \in Ids /\ \A u \in Tasks : mine[u] # Fresh(mine)
<1> DEFINE Held == {u \in Tasks : mine[u] \in Ids}
           Free == Ids \ {mine[u] : u \in Tasks}
<1>1. IsFiniteSet(Tasks \ {t}) /\ Cardinality(Tasks \ {t}) = Cardinality(Tasks) - 1
    BY TasksAssumption, FS_RemoveElement
<1>2. Held \in SUBSET (Tasks \ {t})
    BY DEF Ids, NoId
<1>3. IsFiniteSet(Held) /\ Cardinality(Held) <= Cardinality(Tasks) - 1
    BY <1>1, <1>2, FS_Subset
<1>4. Cardinality(Tasks) \in Nat /\ Cardinality(Held) \in Nat
    BY <1>3, TasksAssumption, FS_CardinalityType
<1>5. Cardinality(Ids) = MaxAllocated
    <2>1. Cardinality(1..MaxAllocated) = IF 1 > MaxAllocated THEN 0 ELSE MaxAllocated - 1 + 1
        BY FS_Interval, AllocatedAssumption
    <2> QED  BY <2>1, AllocatedAssumption DEF Ids
<1>6. Free # {}
    <2> SUFFICES ASSUME Free = {} PROVE FALSE
        OBVIOUS
    <2>1. \A i \in Ids : \E u \in Held : mine[u] = i
        OBVIOUS
    <2> DEFINE f == [u \in Held |-> mine[u]]
    <2>2. f \in Surjection(Held, Ids)
        <3>1. f \in [Held -> Ids]
            OBVIOUS
        <3>2. \A i \in Ids : \E u \in Held : f[u] = i
            BY <2>1
        <3> QED  BY <3>1, <3>2 DEF Surjection
    <2>3. Cardinality(Ids) <= Cardinality(Held)
        BY <1>3, <2>2, FS_Surjection
    <2> QED  BY <1>3, <1>4, <1>5, <2>3, AllocatedAssumption, PoolAssumption
<1>7. Free \subseteq Nat
    BY DEF Ids
<1>8. PICK m \in Free : \A i \in Free : ~(<<i, m>> \in OpToRel(<, Nat))
    BY <1>6, <1>7, WFMin, NatLessThanWellFounded
<1>9. \A i \in Free : m <= i
    <2>1. \A i \in Free : ~(i < m) /\ i \in Nat /\ m \in Nat
        BY <1>7, <1>8 DEF OpToRel
    <2> QED  BY <2>1
<1>10. Fresh(mine) \in Free
    BY <1>9 DEF Fresh, Min
<1> QED  BY <1>10

(* The ends of a queue.                                                      *)
LEMMA QueueFacts ==
    ASSUME NEW S, NEW s \in Seq(S), IsInjective(s)
    PROVE  /\ \A x \in S : x \notin ToSet(s) =>
                /\ Append(s, x) \in Seq(S)
                /\ Len(Append(s, x)) = Len(s) + 1
                /\ IsInjective(Append(s, x))
                /\ ToSet(Append(s, x)) \subseteq ToSet(s) \cup {x}
           /\ s # << >> =>
                /\ Head(s) \in S /\ Tail(s) \in Seq(S)
                /\ Len(Tail(s)) = Len(s) - 1
                /\ IsInjective(Tail(s))
                /\ Head(s) \in ToSet(s)
                /\ ToSet(Tail(s)) \subseteq ToSet(s) \ {Head(s)}
<1>1. ASSUME NEW x \in S, x \notin ToSet(s)
      PROVE  /\ Append(s, x) \in Seq(S)
             /\ Len(Append(s, x)) = Len(s) + 1
             /\ IsInjective(Append(s, x))
             /\ ToSet(Append(s, x)) \subseteq ToSet(s) \cup {x}
    <2> DEFINE a == Append(s, x)
    <2>1. /\ a \in Seq(S) /\ Len(a) = Len(s) + 1 /\ Len(s) \in Nat
          /\ DOMAIN a = 1..(Len(s) + 1) /\ DOMAIN s = 1..Len(s)
          /\ \A i \in 1..Len(s) : a[i] = s[i]
          /\ a[Len(s) + 1] = x
        OBVIOUS
    <2> HIDE DEF a
    <2>2. \A i \in DOMAIN s : s[i] # x
        BY <1>1 DEF ToSet
    <2>3. IsInjective(a)
        BY <2>1, <2>2 DEF IsInjective
    <2>4. ToSet(a) \subseteq ToSet(s) \cup {x}
        BY <2>1 DEF ToSet
    <2> QED  BY <2>1, <2>3, <2>4 DEF a
<1>2. ASSUME s # << >>
      PROVE  /\ Head(s) \in S /\ Tail(s) \in Seq(S)
             /\ Len(Tail(s)) = Len(s) - 1
             /\ IsInjective(Tail(s))
             /\ Head(s) \in ToSet(s)
             /\ ToSet(Tail(s)) \subseteq ToSet(s) \ {Head(s)}
    <2> DEFINE h == Head(s)
               r == Tail(s)
    <2>1. /\ h \in S /\ r \in Seq(S) /\ Len(r) = Len(s) - 1 /\ Len(s) \in Nat \ {0}
          /\ DOMAIN r = 1..(Len(s) - 1) /\ DOMAIN s = 1..Len(s)
          /\ \A i \in 1..(Len(s) - 1) : r[i] = s[i + 1]
          /\ h = s[1]
        BY <1>2
    <2> HIDE DEF h, r
    <2>2. \A i \in DOMAIN r : i + 1 \in DOMAIN s /\ i + 1 # 1 /\ r[i] = s[i + 1] /\ i \in Nat
        BY <2>1
    <2>3. 1 \in DOMAIN s
        BY <2>1
    <2>4. ASSUME NEW i \in DOMAIN r, NEW j \in DOMAIN r, r[i] = r[j] PROVE i = j
        <3>1. i + 1 = j + 1
            BY <2>2, <2>4 DEF IsInjective
        <3> QED  BY <2>2, <3>1
    <2>5. \A i \in DOMAIN r : r[i] \in ToSet(s) /\ r[i] # h
        BY <2>1, <2>2, <2>3 DEF IsInjective, ToSet
    <2>6. h \in ToSet(s)
        BY <2>1, <2>3 DEF ToSet
    <2> QED  BY <2>1, <2>4, <2>5, <2>6 DEF IsInjective, ToSet, h, r
<1> QED  BY <1>1, <1>2

(* pop, or allocate: the task gets what no other task and no pool has.        *)
LEMMA TakeIsExclusive ==
    ASSUME NEW pool, NEW mine, Exclusive(pool, mine),
           NEW t \in Tasks, mine[t] = NoId
    PROVE  LET id == Taken(pool, mine)
           IN  /\ id \in Ids
               /\ \A u \in Tasks : mine[u] # id
               /\ id \notin ToSet(Pop(pool))
               /\ ToSet(Pop(pool)) \subseteq ToSet(pool)
               /\ Exclusive(Pop(pool), mine)
               /\ Exclusive(Pop(pool), [mine EXCEPT ![t] = id])
               /\ Len(Pop(pool)) \in Nat /\ Len(pool) \in Nat
               /\ Len(Pop(pool)) >= Len(pool) - 1
<1> DEFINE id == Taken(pool, mine)
           rest == Pop(pool)
<1>1. /\ id \in Ids
      /\ \A u \in Tasks : mine[u] # id
      /\ id \notin ToSet(rest)
      /\ ToSet(rest) \subseteq ToSet(pool)
      /\ rest \in Seq(Ids) /\ Len(rest) <= PoolCapacity /\ IsInjective(rest)
      /\ Len(rest) \in Nat /\ Len(pool) \in Nat /\ Len(rest) >= Len(pool) - 1
    <2>1. CASE pool = << >>
        <3>1. ToSet(pool) = {}
            BY <2>1 DEF ToSet
        <3> QED  BY <2>1, <3>1, FreshIsFree DEF Taken, Pop, Exclusive
    <2>2. CASE pool # << >>
        <3>1. /\ pool \in Seq(Ids) /\ Len(pool) \in Nat
              /\ id = Head(pool) /\ rest = Tail(pool)
            BY <2>2 DEF Taken, Pop, Exclusive
        <3>2. /\ Head(pool) \in Ids /\ Tail(pool) \in Seq(Ids)
              /\ Len(Tail(pool)) = Len(pool) - 1
              /\ IsInjective(Tail(pool))
              /\ Head(pool) \in ToSet(pool)
              /\ ToSet(Tail(pool)) \subseteq ToSet(pool) \ {Head(pool)}
            BY <2>2, <3>1, QueueFacts DEF Exclusive
        <3>3. Len(Tail(pool)) \in Nat
            BY <3>2
        <3> HIDE DEF id, rest
        <3> QED  BY <3>1, <3>2, <3>3, PoolAssumption DEF Exclusive
    <2> QED  BY <2>1, <2>2
<1> HIDE DEF id, rest
<1>2. Exclusive(rest, mine) /\ Exclusive(rest, [mine EXCEPT ![t] = id])
    BY <1>1 DEF Exclusive, Ids, NoId
<1> QED  BY <1>1, <1>2 DEF id, rest

(* push, or drop: what a task gives back is nobody's, or the pool's.          *)
LEMMA GiveIsExclusive ==
    ASSUME NEW pool, NEW mine, Exclusive(pool, mine),
           NEW t \in Tasks, mine[t] # NoId
    PROVE  /\ Exclusive(Push(pool, mine[t]), [mine EXCEPT ![t] = NoId])
           /\ Exclusive(pool, [mine EXCEPT ![t] = NoId])
           /\ ToSet(Push(pool, mine[t])) \subseteq ToSet(pool) \cup {mine[t]}
           /\ Len(pool) \in Nat
           /\ Len(Push(pool, mine[t])) \in {Len(pool) + 1, PoolCapacity}
<1> DEFINE more == Push(pool, mine[t])
<1>1. /\ mine[t] \in Ids /\ pool \in Seq(Ids) /\ Len(pool) \in Nat
      /\ mine[t] \notin ToSet(pool)
      /\ \A i \in ToSet(pool) : i \in Ids
    BY DEF Exclusive, ToSet
<1>2. /\ Append(pool, mine[t]) \in Seq(Ids)
      /\ Len(Append(pool, mine[t])) = Len(pool) + 1
      /\ IsInjective(Append(pool, mine[t]))
      /\ ToSet(Append(pool, mine[t])) \subseteq ToSet(pool) \cup {mine[t]}
    BY <1>1, QueueFacts DEF Exclusive
<1>3. /\ more \in Seq(Ids) /\ Len(more) <= PoolCapacity /\ IsInjective(more)
      /\ ToSet(more) \subseteq ToSet(pool) \cup {mine[t]}
      /\ Len(more) \in {Len(pool) + 1, PoolCapacity}
    BY <1>1, <1>2, PoolAssumption DEF Push, Exclusive
<1> HIDE DEF more
<1>4. Exclusive(more, [mine EXCEPT ![t] = NoId])
    BY <1>1, <1>3 DEF Exclusive, Ids, NoId
<1>5. Exclusive(pool, [mine EXCEPT ![t] = NoId])
    BY <1>1 DEF Exclusive, Ids, NoId
<1> QED  BY <1>1, <1>3, <1>4, <1>5 DEF more

-----------------------------------------------------------------------------
(* Tasks in some of the states.                                              *)
InStates(places, states) == Cardinality({t \in Tasks : places[t] \in states})

(* They can be counted.                                                      *)
LEMMA CountIsNat ==
    ASSUME NEW places, NEW states
    PROVE  InStates(places, states) \in Nat
<1> DEFINE In == {t \in Tasks : places[t] \in states}
<1>1. In \in SUBSET Tasks
    OBVIOUS
<1> HIDE DEF In
<1>2. IsFiniteSet(In)
    BY <1>1, TasksAssumption, FS_Subset
<1> QED  BY <1>2, FS_CardinalityType DEF InStates, In

(* One task moves, and the number of tasks in a set of states with it.        *)
LEMMA MoveCounts ==
    ASSUME NEW places, DOMAIN places = Tasks, NEW t \in Tasks, NEW to, NEW states
    PROVE  LET moved == [places EXCEPT ![t] = to]
           IN  /\ InStates(places, states) \in Nat
               /\ InStates(moved, states) \in Nat
               /\ (places[t] \in states => to \in states) =>
                      InStates(moved, states) >= InStates(places, states)
               /\ places[t] \notin states /\ to \in states =>
                      InStates(moved, states) = InStates(places, states) + 1
               /\ InStates(moved, states) >= InStates(places, states) - 1
<1> DEFINE moved == [places EXCEPT ![t] = to]
           In == {u \in Tasks : places[u] \in states}
           InNow == {u \in Tasks : moved[u] \in states}
<1>1. IsFiniteSet(In) /\ IsFiniteSet(InNow)
    <2>1. In \in SUBSET Tasks /\ InNow \in SUBSET Tasks
        OBVIOUS
    <2> HIDE DEF In, InNow
    <2> QED  BY <2>1, TasksAssumption, FS_Subset
<1>2. Cardinality(In) \in Nat /\ Cardinality(InNow) \in Nat
    BY <1>1, FS_CardinalityType
<1>3. \A u \in Tasks : moved[u] = IF u = t THEN to ELSE places[u]
    OBVIOUS
<1>4. (places[t] \in states => to \in states) => In \subseteq InNow
    BY <1>3
<1>5. places[t] \notin states /\ to \in states => InNow = In \cup {t} /\ t \notin In
    BY <1>3
<1>6. In \ {t} \subseteq InNow
    BY <1>3
<1> HIDE DEF In, InNow
<1>7. ASSUME In \subseteq InNow PROVE Cardinality(In) <= Cardinality(InNow)
    <2>1. In \in SUBSET InNow
        BY <1>7
    <2> QED  BY <1>1, <2>1, FS_Subset
<1>8. t \notin In => Cardinality(In \cup {t}) = Cardinality(In) + 1
    BY <1>1, FS_AddElement
<1>9. Cardinality(In \ {t}) >= Cardinality(In) - 1
    <2>1. Cardinality(In \ {t}) = IF t \in In THEN Cardinality(In) - 1 ELSE Cardinality(In)
        BY <1>1, FS_RemoveElement
    <2> QED  BY <1>2, <2>1
<1>10. Cardinality(In \ {t}) <= Cardinality(InNow) /\ Cardinality(In \ {t}) \in Nat
    BY <1>1, <1>6, FS_Subset, FS_RemoveElement, FS_CardinalityType
<1>11. InStates(places, states) = Cardinality(In) /\ InStates(moved, states) = Cardinality(InNow)
    BY DEF InStates, In, InNow
<1>12. (places[t] \in states => to \in states) => Cardinality(InNow) >= Cardinality(In)
    BY <1>2, <1>4, <1>7
<1>13. places[t] \notin states /\ to \in states => Cardinality(InNow) = Cardinality(In) + 1
    BY <1>5, <1>8
<1>14. Cardinality(InNow) >= Cardinality(In) - 1
    BY <1>2, <1>9, <1>10
<1> QED  BY <1>2, <1>11, <1>12, <1>13, <1>14

(* A task that enters these states is one more.                              *)
LEMMA EnterCounts ==
    ASSUME NEW places, DOMAIN places = Tasks, NEW t \in Tasks, NEW states,
           NEW to \in states, places[t] \notin states
    PROVE  InStates([places EXCEPT ![t] = to], states) = InStates(places, states) + 1
<1> DEFINE moved == [places EXCEPT ![t] = to]
           In == {u \in Tasks : places[u] \in states}
           InNow == {u \in Tasks : moved[u] \in states}
<1>1. In \in SUBSET Tasks /\ t \notin In
    OBVIOUS
<1>2. InNow = In \cup {t}
    OBVIOUS
<1>3. InStates(places, states) = Cardinality(In) /\ InStates(moved, states) = Cardinality(InNow)
    BY DEF InStates
<1> HIDE DEF In, InNow
<1>4. IsFiniteSet(In)
    BY <1>1, TasksAssumption, FS_Subset
<1>5. Cardinality(In \cup {t}) = Cardinality(In) + 1
    BY <1>1, <1>4, FS_AddElement
<1> QED  BY <1>2, <1>3, <1>5

-----------------------------------------------------------------------------
(* The two pools.                                                            *)
HoldsBuilder == {"fill", "compile", "release"}
HoldsBuffer == {"serialized", "sending"}
BuilderGone == {"fill", "compile", "release", "panicked"}
BufferGone == {"serialized", "sending", "buffer_lost"}

Holding ==
    \A t \in Tasks : /\ my_builder[t] # NoId <=> pc[t] \in HoldsBuilder
                     /\ my_buffer[t] # NoId <=> pc[t] \in HoldsBuffer

PooledAreEmpty ==
    /\ DOMAIN builder = Ids
    /\ \A i \in ToSet(builder_pool) : builder[i] = << >>

BuildersConserved == Len(builder_pool) + InStates(pc, BuilderGone) >= PoolSize
BuffersConserved == Len(buffer_pool) + InStates(pc, BufferGone) >= PoolSize

(* The inductive invariant of the pools.                                     *)
PoolInv ==
    /\ pc \in [Tasks -> PcValues]
    /\ Exclusive(builder_pool, my_builder)
    /\ Exclusive(buffer_pool, my_buffer)
    /\ Holding
    /\ PooledAreEmpty
    /\ BuildersConserved
    /\ BuffersConserved
    /\ nonce \in 0..MaxNonce /\ landed \subseteq Tasks

(* The invariant holds with the pools of a new process.                      *)
LEMMA PoolInvInit == Init => PoolInv
<1> SUFFICES ASSUME Init PROVE PoolInv
    OBVIOUS
<1>1. pc \in [Tasks -> PcValues]
    BY DEF Init, PcValues
<1> DEFINE first == [i \in 1..PoolSize |-> i]
<1>2. first \in Seq(Ids) /\ Len(first) = PoolSize /\ IsInjective(first) /\ ToSet(first) \subseteq Ids
    <2>1. PoolSize \in Nat /\ PoolSize <= MaxAllocated
        <3>1. Cardinality(Tasks) \in Nat
            BY TasksAssumption, FS_CardinalityType
        <3> QED  BY <3>1, PoolAssumption, AllocatedAssumption
    <2>2. first \in [1..PoolSize -> Ids]
        BY <2>1, AllocatedAssumption DEF Ids
    <2>3. IsInjective(first)
        BY DEF IsInjective
    <2>4. ToSet(first) \subseteq Ids
        BY <2>2 DEF ToSet
    <2> QED  BY <2>1, <2>2, <2>3, <2>4
<1>3. \A mine : mine = [t \in Tasks |-> NoId] => Exclusive(first, mine)
    <2> HIDE DEF first
    <2> QED  BY <1>2, PoolAssumption DEF Exclusive, Ids, NoId
<1>4. builder_pool = first /\ buffer_pool = first
    BY DEF Init
<1> HIDE DEF first
<1>5. Exclusive(builder_pool, my_builder) /\ Exclusive(buffer_pool, my_buffer)
    BY <1>3, <1>4 DEF Init
<1>6. Holding
    BY DEF Init, Holding, HoldsBuilder, HoldsBuffer
<1>7. PooledAreEmpty
    BY <1>4, <1>2 DEF Init, PooledAreEmpty, ToSet
<1>8. BuildersConserved /\ BuffersConserved
    <2>1. /\ InStates(pc, BuilderGone) \in Nat
          /\ InStates(pc, BufferGone) \in Nat
        BY CountIsNat
    <2> QED  BY <1>2, <1>4, <2>1, PoolAssumption DEF BuildersConserved, BuffersConserved
<1>9. nonce \in 0..MaxNonce /\ landed \subseteq Tasks
    BY MaxNonceAssumption DEF Init
<1> QED  BY <1>1, <1>5, <1>6, <1>7, <1>8, <1>9 DEF PoolInv

(* A task that moves without touching the pools keeps the invariant, if it    *)
(* holds as much as before and comes out of no failure.                      *)
LEMMA QuietMove ==
    ASSUME PoolInv, UNCHANGED <<pools, buffers, chain>>, NEW t \in Tasks, NEW to \in PcValues,
           pc' = [pc EXCEPT ![t] = to],
           pc[t] \in HoldsBuilder <=> to \in HoldsBuilder,
           pc[t] \in HoldsBuffer <=> to \in HoldsBuffer,
           pc[t] \notin {"panicked", "buffer_lost"}
    PROVE  PoolInv'
<1> USE DEF PoolInv
<1>1. UNCHANGED <<builder_pool, builder, my_builder, buffer_pool, my_buffer, nonce, landed>>
    BY DEF pools, buffers, chain
<1>2. pc' \in [Tasks -> PcValues]
    OBVIOUS
<1>3. Exclusive(builder_pool, my_builder)' /\ Exclusive(buffer_pool, my_buffer)'
    BY <1>1 DEF Exclusive
<1>4. Holding' /\ PooledAreEmpty'
    BY <1>1 DEF Holding, PooledAreEmpty
<1>5. BuildersConserved' /\ BuffersConserved'
    <2>1. /\ InStates(pc, BuilderGone) \in Nat /\ InStates(pc', BuilderGone) \in Nat
          /\ InStates(pc', BuilderGone) >= InStates(pc, BuilderGone)
        BY MoveCounts DEF BuilderGone, HoldsBuilder
    <2>2. /\ InStates(pc, BufferGone) \in Nat /\ InStates(pc', BufferGone) \in Nat
          /\ InStates(pc', BufferGone) >= InStates(pc, BufferGone)
        BY MoveCounts DEF BufferGone, HoldsBuffer
    <2>3. Len(builder_pool) \in Nat /\ Len(buffer_pool) \in Nat
        BY DEF Exclusive
    <2> QED  BY <1>1, <2>1, <2>2, <2>3, PoolAssumption DEF BuildersConserved, BuffersConserved
<1> QED  BY <1>1, <1>2, <1>3, <1>4, <1>5

(* Steps that only compute, look up or write, and the chain.                 *)
LEMMA QuietSteps ==
    ASSUME PoolInv, NEW t \in Tasks,
           \/ AddressHit(t) \/ AddressMiss(t) \/ AddressInsert(t) \/ get_cached_instructions(t)
           \/ fetch_nonce_info(t) \/ CacheHit(t) \/ CacheMiss(t) \/ CacheInsert(t)
           \/ build_versioned_transaction(t) \/ Compile(t) \/ SendFromBuffer(t)
    PROVE  PoolInv'
<1>1. UNCHANGED <<pools, buffers, chain>>
    BY DEF AddressHit, AddressMiss, AddressInsert, get_cached_instructions, fetch_nonce_info,
       CacheHit, CacheMiss, CacheInsert, build_versioned_transaction, Compile, SendFromBuffer
<1>2. PICK to \in PcValues :
        /\ pc' = [pc EXCEPT ![t] = to]
        /\ \/ /\ pc[t] \in {"begin", "address", "create", "idle", "ready", "miss", "middleware"}
              /\ to \notin HoldsBuilder \cup HoldsBuffer
           \/ pc[t] = "compile" /\ to = "release"
           \/ pc[t] \in {"serialized", "sending"} /\ to = "sending"
    BY DEF AddressHit, AddressMiss, AddressInsert, get_cached_instructions, fetch_nonce_info,
       CacheHit, CacheMiss, CacheInsert, build_versioned_transaction, Compile, SendFromBuffer,
       At, PcValues, HoldsBuilder, HoldsBuffer
<1> QED  BY <1>1, <1>2, QuietMove DEF HoldsBuilder, HoldsBuffer

(* acquire_builder keeps the invariant, whether it pops or allocates.         *)
LEMMA AcquireStep == ASSUME PoolInv, NEW t \in Tasks, acquire_builder(t) PROVE PoolInv'
<1> USE DEF PoolInv
<1>1. /\ pc[t] = "acquire" /\ pc' = [pc EXCEPT ![t] = "fill"]
      /\ my_builder' = [my_builder EXCEPT ![t] = Taken(builder_pool, my_builder)]
      /\ builder_pool' = Pop(builder_pool)
      /\ UNCHANGED <<builder, buffer_pool, my_buffer, nonce, landed>>
    BY DEF acquire_builder, At, buffers, chain
<1>2. my_builder[t] = NoId
    BY <1>1 DEF Holding, HoldsBuilder
<1>3. /\ Exclusive(builder_pool, my_builder)'
      /\ ToSet(builder_pool') \subseteq ToSet(builder_pool)
      /\ Taken(builder_pool, my_builder) \in Ids
      /\ Len(builder_pool) \in Nat /\ Len(builder_pool') \in Nat
      /\ Len(builder_pool') >= Len(builder_pool) - 1
    <2>1. /\ Exclusive(Pop(builder_pool), my_builder')
          /\ ToSet(Pop(builder_pool)) \subseteq ToSet(builder_pool)
          /\ Taken(builder_pool, my_builder) \in Ids
          /\ Len(builder_pool) \in Nat /\ Len(Pop(builder_pool)) \in Nat
          /\ Len(Pop(builder_pool)) >= Len(builder_pool) - 1
        BY <1>1, <1>2, TakeIsExclusive
    <2> QED  BY <1>1, <2>1 DEF Exclusive
<1>4. Exclusive(buffer_pool, my_buffer)'
    BY <1>1 DEF Exclusive
<1>5. pc' \in [Tasks -> PcValues]
    BY <1>1 DEF PcValues
<1>6. Holding'
    BY <1>1, <1>3 DEF Holding, HoldsBuilder, HoldsBuffer, Exclusive, Ids, NoId
<1>7. PooledAreEmpty'
    BY <1>1, <1>3 DEF PooledAreEmpty
<1>8. /\ InStates(pc, BuilderGone) \in Nat /\ InStates(pc', BuilderGone) \in Nat
      /\ InStates(pc', BuilderGone) = InStates(pc, BuilderGone) + 1
    <2>1. DOMAIN pc = Tasks /\ pc[t] \notin BuilderGone /\ "fill" \in BuilderGone
        BY <1>1 DEF BuilderGone
    <2>2. InStates(pc, BuilderGone) \in Nat
        BY CountIsNat
    <2>3. InStates(pc', BuilderGone) = InStates(pc, BuilderGone) + 1
        <3> DEFINE to == "fill"
        <3>1. to \in BuilderGone /\ pc' = [pc EXCEPT ![t] = to]
            BY <1>1, <2>1
        <3> HIDE DEF to, PoolInv
        <3> QED  BY <2>1, <3>1, EnterCounts, Zenon
    <2> QED  BY <2>2, <2>3
<1>9. /\ InStates(pc, BufferGone) \in Nat /\ InStates(pc', BufferGone) \in Nat
      /\ InStates(pc', BufferGone) >= InStates(pc, BufferGone)
    BY <1>1, MoveCounts DEF BufferGone
<1>10. BuildersConserved'
    BY <1>3, <1>8, PoolAssumption DEF BuildersConserved
<1>11. BuffersConserved'
    <2>1. Len(buffer_pool) \in Nat /\ UNCHANGED buffer_pool
        BY <1>1 DEF Exclusive
    <2> QED  BY <1>9, <2>1, PoolAssumption DEF BuffersConserved
<1> QED  BY <1>1, <1>3, <1>4, <1>5, <1>6, <1>7, <1>10, <1>11

(* Writing to a builder that one holds touches no pooled one.                *)
LEMMA FillStep == ASSUME PoolInv, NEW t \in Tasks, Fill(t) PROVE PoolInv'
<1> USE DEF PoolInv
<1>1. /\ pc[t] = "fill" /\ pc' = [pc EXCEPT ![t] = "compile"]
      /\ builder' = [builder EXCEPT ![my_builder[t]] = full_instructions[t]]
      /\ UNCHANGED <<builder_pool, my_builder, buffer_pool, my_buffer, nonce, landed>>
    BY DEF Fill, At, buffers, chain
<1>2. Exclusive(builder_pool, my_builder)' /\ Exclusive(buffer_pool, my_buffer)'
    BY <1>1 DEF Exclusive
<1>3. pc' \in [Tasks -> PcValues]
    BY <1>1 DEF PcValues
<1>4. Holding'
    BY <1>1 DEF Holding, HoldsBuilder, HoldsBuffer
<1>5. PooledAreEmpty'
    <2>1. my_builder[t] \notin ToSet(builder_pool)
        BY DEF Exclusive
    <2>2. \A i \in ToSet(builder_pool) : i \in Ids
        BY DEF Exclusive, ToSet
    <2> QED  BY <1>1, <2>1, <2>2 DEF PooledAreEmpty
<1>6. BuildersConserved' /\ BuffersConserved'
    <2>1. /\ InStates(pc, BuilderGone) \in Nat /\ InStates(pc', BuilderGone) \in Nat
          /\ InStates(pc', BuilderGone) >= InStates(pc, BuilderGone)
        BY <1>1, MoveCounts DEF BuilderGone
    <2>2. /\ InStates(pc, BufferGone) \in Nat /\ InStates(pc', BufferGone) \in Nat
          /\ InStates(pc', BufferGone) >= InStates(pc, BufferGone)
        BY <1>1, MoveCounts DEF BufferGone
    <2>3. Len(builder_pool) \in Nat /\ Len(buffer_pool) \in Nat
        BY DEF Exclusive
    <2> QED  BY <1>1, <2>1, <2>2, <2>3, PoolAssumption DEF BuildersConserved, BuffersConserved
<1> QED  BY <1>1, <1>2, <1>3, <1>4, <1>5, <1>6

(* A builder leaves its task by release_builder, emptied, or by a panic,      *)
(* which loses it.                                                           *)
LEMMA ReleaseStep ==
    ASSUME PoolInv, NEW t \in Tasks, release_builder(t) \/ CompilePanics(t)
    PROVE  PoolInv'
<1> USE DEF PoolInv
<1>1. /\ my_builder' = [my_builder EXCEPT ![t] = NoId]
      /\ UNCHANGED <<buffer_pool, my_buffer, nonce, landed>>
      /\ \/ /\ pc[t] = "release" /\ pc' = [pc EXCEPT ![t] = "built"]
            /\ builder' = [builder EXCEPT ![my_builder[t]] = << >>]
            /\ builder_pool' = Push(builder_pool, my_builder[t])
         \/ /\ pc[t] = "compile" /\ pc' = [pc EXCEPT ![t] = "panicked"]
            /\ UNCHANGED <<builder, builder_pool>>
    BY DEF release_builder, CompilePanics, At, buffers, chain
<1>2. my_builder[t] # NoId /\ my_builder[t] \in Ids
    BY <1>1 DEF Holding, HoldsBuilder, Exclusive
<1>3. /\ Exclusive(Push(builder_pool, my_builder[t]), my_builder')
      /\ Exclusive(builder_pool, my_builder')
      /\ ToSet(Push(builder_pool, my_builder[t])) \subseteq ToSet(builder_pool) \cup {my_builder[t]}
      /\ Len(builder_pool) \in Nat
      /\ Len(Push(builder_pool, my_builder[t])) \in {Len(builder_pool) + 1, PoolCapacity}
    <2>1. /\ Exclusive(Push(builder_pool, my_builder[t]), [my_builder EXCEPT ![t] = NoId])
          /\ Exclusive(builder_pool, [my_builder EXCEPT ![t] = NoId])
          /\ ToSet(Push(builder_pool, my_builder[t])) \subseteq ToSet(builder_pool) \cup {my_builder[t]}
          /\ Len(builder_pool) \in Nat
          /\ Len(Push(builder_pool, my_builder[t])) \in {Len(builder_pool) + 1, PoolCapacity}
        BY <1>2, GiveIsExclusive
    <2> QED  BY <1>1, <2>1
<1>4. Exclusive(builder_pool, my_builder)' /\ Exclusive(buffer_pool, my_buffer)'
    BY <1>1, <1>3 DEF Exclusive
<1>5. pc' \in [Tasks -> PcValues]
    BY <1>1 DEF PcValues
<1>6. Holding'
    BY <1>1 DEF Holding, HoldsBuilder, HoldsBuffer, Exclusive, Ids, NoId
<1>7. PooledAreEmpty'
    <2>1. \A i \in ToSet(builder_pool) : i \in Ids /\ i # my_builder[t]
        BY DEF Exclusive, ToSet
    <2>2. CASE UNCHANGED <<builder, builder_pool>>
        BY <2>2 DEF PooledAreEmpty
    <2>3. CASE /\ builder' = [builder EXCEPT ![my_builder[t]] = << >>]
               /\ builder_pool' = Push(builder_pool, my_builder[t])
        <3>1. \A i \in ToSet(builder_pool') : i \in ToSet(builder_pool) \/ i = my_builder[t]
            BY <1>3, <2>3
        <3>2. DOMAIN builder' = Ids /\ \A i \in Ids : builder'[i] = IF i = my_builder[t] THEN << >> ELSE builder[i]
            BY <1>2, <2>3 DEF PooledAreEmpty
        <3> QED  BY <1>2, <2>1, <3>1, <3>2 DEF PooledAreEmpty
    <2> QED  BY <1>1, <2>2, <2>3
<1>8. /\ InStates(pc, BuilderGone) \in Nat /\ InStates(pc', BuilderGone) \in Nat
      /\ InStates(pc', BuilderGone) >= InStates(pc, BuilderGone) - 1
      /\ pc[t] = "compile" => InStates(pc', BuilderGone) >= InStates(pc, BuilderGone)
    BY <1>1, MoveCounts DEF BuilderGone
<1>9. /\ InStates(pc, BufferGone) \in Nat /\ InStates(pc', BufferGone) \in Nat
      /\ InStates(pc', BufferGone) >= InStates(pc, BufferGone)
    <2>1. DOMAIN pc = Tasks /\ pc[t] \notin BufferGone
        BY <1>1 DEF BufferGone
    <2>2. ASSUME NEW to
          PROVE  /\ InStates(pc, BufferGone) \in Nat
                 /\ InStates([pc EXCEPT ![t] = to], BufferGone) \in Nat
                 /\ InStates([pc EXCEPT ![t] = to], BufferGone) >= InStates(pc, BufferGone)
        BY <2>1, MoveCounts
    <2>3. \E to : pc' = [pc EXCEPT ![t] = to]
        BY <1>1
    <2> QED  BY <2>2, <2>3
<1>10. BuildersConserved'
    BY <1>1, <1>3, <1>8, PoolAssumption DEF BuildersConserved
<1>11. BuffersConserved'
    <2>1. Len(buffer_pool) \in Nat /\ UNCHANGED buffer_pool
        BY <1>1 DEF Exclusive
    <2> QED  BY <1>9, <2>1, PoolAssumption DEF BuffersConserved
<1> QED  BY <1>1, <1>4, <1>5, <1>6, <1>7, <1>10, <1>11

(* serialize_zero_alloc takes a buffer and keeps or loses it.                 *)
LEMMA SerializeStep == ASSUME PoolInv, NEW t \in Tasks, serialize_zero_alloc(t) PROVE PoolInv'
<1> USE DEF PoolInv
<1>1. /\ pc[t] = "built"
      /\ buffer_pool' = Pop(buffer_pool)
      /\ UNCHANGED <<builder, builder_pool, my_builder, nonce, landed>>
      /\ \/ /\ pc' = [pc EXCEPT ![t] = "serialized"]
            /\ my_buffer' = [my_buffer EXCEPT ![t] = Taken(buffer_pool, my_buffer)]
         \/ /\ pc' = [pc EXCEPT ![t] = "buffer_lost"]
            /\ UNCHANGED my_buffer
    BY DEF serialize_zero_alloc, At, pools, chain
<1>2. my_buffer[t] = NoId
    BY <1>1 DEF Holding, HoldsBuffer
<1>3. /\ Exclusive(Pop(buffer_pool), my_buffer)
      /\ Exclusive(Pop(buffer_pool), [my_buffer EXCEPT ![t] = Taken(buffer_pool, my_buffer)])
      /\ Taken(buffer_pool, my_buffer) \in Ids
      /\ Len(buffer_pool) \in Nat /\ Len(Pop(buffer_pool)) \in Nat
      /\ Len(Pop(buffer_pool)) >= Len(buffer_pool) - 1
    BY <1>2, TakeIsExclusive
<1>4. Exclusive(builder_pool, my_builder)' /\ Exclusive(buffer_pool, my_buffer)'
    BY <1>1, <1>3 DEF Exclusive
<1>5. pc' \in [Tasks -> PcValues]
    BY <1>1 DEF PcValues
<1>6. Holding'
    BY <1>1, <1>3 DEF Holding, HoldsBuilder, HoldsBuffer, Exclusive, Ids, NoId
<1>7. PooledAreEmpty'
    BY <1>1 DEF PooledAreEmpty
<1>8. /\ InStates(pc, BufferGone) \in Nat /\ InStates(pc', BufferGone) \in Nat
      /\ InStates(pc', BufferGone) = InStates(pc, BufferGone) + 1
    BY <1>1, MoveCounts DEF BufferGone
<1>9. /\ InStates(pc, BuilderGone) \in Nat /\ InStates(pc', BuilderGone) \in Nat
      /\ InStates(pc', BuilderGone) >= InStates(pc, BuilderGone)
    BY <1>1, MoveCounts DEF BuilderGone
<1>10. BuffersConserved'
    BY <1>1, <1>3, <1>8, PoolAssumption DEF BuffersConserved
<1>11. BuildersConserved'
    <2>1. Len(builder_pool) \in Nat /\ UNCHANGED builder_pool
        BY <1>1 DEF Exclusive
    <2> QED  BY <1>9, <2>1, PoolAssumption DEF BuildersConserved
<1> QED  BY <1>1, <1>4, <1>5, <1>6, <1>7, <1>10, <1>11

(* A buffer leaves its task into the pool, or is lost with an encoding that   *)
(* is not supported.                                                         *)
LEMMA ReturnStep ==
    ASSUME PoolInv, NEW t \in Tasks, serialize_transaction_sync(t) \/ DropGuard(t)
    PROVE  PoolInv'
<1> USE DEF PoolInv
<1>1. /\ my_buffer' = [my_buffer EXCEPT ![t] = NoId]
      /\ UNCHANGED <<builder, builder_pool, my_builder, nonce, landed>>
      /\ pc[t] \in {"serialized", "sending"}
      /\ \/ /\ pc' = [pc EXCEPT ![t] = "done"]
            /\ buffer_pool' = Push(buffer_pool, my_buffer[t])
         \/ /\ pc' = [pc EXCEPT ![t] = "buffer_lost"]
            /\ UNCHANGED buffer_pool
    BY DEF serialize_transaction_sync, DropGuard, return_buffer, At, pools, chain
<1>2. my_buffer[t] # NoId
    BY <1>1 DEF Holding, HoldsBuffer
<1>3. /\ Exclusive(Push(buffer_pool, my_buffer[t]), my_buffer')
      /\ Exclusive(buffer_pool, my_buffer')
      /\ Len(buffer_pool) \in Nat
      /\ Len(Push(buffer_pool, my_buffer[t])) \in {Len(buffer_pool) + 1, PoolCapacity}
    <2>1. /\ Exclusive(Push(buffer_pool, my_buffer[t]), [my_buffer EXCEPT ![t] = NoId])
          /\ Exclusive(buffer_pool, [my_buffer EXCEPT ![t] = NoId])
          /\ Len(buffer_pool) \in Nat
          /\ Len(Push(buffer_pool, my_buffer[t])) \in {Len(buffer_pool) + 1, PoolCapacity}
        BY <1>2, GiveIsExclusive
    <2> QED  BY <1>1, <2>1
<1>4. Exclusive(builder_pool, my_builder)' /\ Exclusive(buffer_pool, my_buffer)'
    BY <1>1, <1>3 DEF Exclusive
<1>5. pc' \in [Tasks -> PcValues]
    BY <1>1 DEF PcValues
<1>6. Holding'
    BY <1>1 DEF Holding, HoldsBuilder, HoldsBuffer, Exclusive, Ids, NoId
<1>7. PooledAreEmpty'
    BY <1>1 DEF PooledAreEmpty
<1>8. /\ InStates(pc, BufferGone) \in Nat /\ InStates(pc', BufferGone) \in Nat
      /\ InStates(pc', BufferGone) >= InStates(pc, BufferGone) - 1
      /\ pc' = [pc EXCEPT ![t] = "buffer_lost"] =>
            InStates(pc', BufferGone) >= InStates(pc, BufferGone)
    BY <1>1, MoveCounts DEF BufferGone
<1>9. /\ InStates(pc, BuilderGone) \in Nat /\ InStates(pc', BuilderGone) \in Nat
      /\ InStates(pc', BuilderGone) >= InStates(pc, BuilderGone)
    BY <1>1, MoveCounts DEF BuilderGone
<1>10. BuffersConserved'
    BY <1>1, <1>3, <1>8, PoolAssumption DEF BuffersConserved
<1>11. BuildersConserved'
    <2>1. Len(builder_pool) \in Nat /\ UNCHANGED builder_pool
        BY <1>1 DEF Exclusive
    <2> QED  BY <1>9, <2>1, PoolAssumption DEF BuildersConserved
<1> QED  BY <1>1, <1>4, <1>5, <1>6, <1>7, <1>10, <1>11

(* Every step keeps the invariant of the pools.                              *)
LEMMA PoolInvStep == ASSUME PoolInv, [Next]_vars PROVE PoolInv'
<1>1. ASSUME NEW t \in Tasks, Build(t) \/ Submit(t) PROVE PoolInv'
    BY <1>1, QuietSteps, AcquireStep, FillStep, ReleaseStep, SerializeStep, ReturnStep
       DEF Build, Submit
<1>2. ASSUME NEW t \in Tasks, Land(t) PROVE PoolInv'
    <2>1. /\ UNCHANGED <<pc, builder_pool, builder, my_builder, buffer_pool, my_buffer>>
          /\ nonce' \in 0..MaxNonce /\ landed' \subseteq Tasks
        BY <1>2, MaxNonceAssumption DEF Land, pools, buffers, PoolInv
    <2> QED  BY <2>1 DEF PoolInv, Exclusive, Holding, PooledAreEmpty, BuildersConserved,
                BuffersConserved
<1>3. CASE UNCHANGED vars
    <2>1. UNCHANGED <<pc, builder_pool, builder, my_builder, buffer_pool, my_buffer, nonce, landed>>
        BY <1>3 DEF vars, pools, buffers, chain
    <2> QED  BY <2>1 DEF PoolInv, Exclusive, Holding, PooledAreEmpty, BuildersConserved,
                BuffersConserved
<1> QED  BY <1>1, <1>2, <1>3 DEF Next

(* In every reachable state the two pools and the tasks share nothing, no     *)
(* queue is over its capacity, and what a pool misses a task holds or a       *)
(* failure lost, whatever the number of tasks and the sizes.                 *)
THEOREM PoolInvariance == Spec => []PoolInv
BY PoolInvInit, PoolInvStep, PTL DEF Spec

(* acquire_builder and serialize_zero_alloc never hand out what another task  *)
(* holds, release and return never queue an element twice or beyond the       *)
(* capacity, and the pools shrink by nothing but failures.                   *)
THEOREM Pools == Spec => []PoolsAreSound
<1>1. ASSUME PoolInv PROVE PoolsAreSound
    <2>1. TypeOK
        BY <1>1 DEF PoolInv, Exclusive, Holding, HoldsBuilder, HoldsBuffer, TypeOK
    <2>2. NoSharing
        BY <1>1 DEF PoolInv, Exclusive, PooledAreEmpty, NoSharing
    <2>3. PoolsAreConserved
        BY <1>1 DEF PoolInv, BuildersConserved, BuffersConserved, PoolsAreConserved, InStates,
           BuilderGone, BufferGone
    <2> QED  BY <2>1, <2>2, <2>3 DEF PoolsAreSound
<1> QED  BY <1>1, PoolInvariance, PTL

-----------------------------------------------------------------------------
(* What the memory holds.  Between serialize_zero_alloc and the return of the *)
(* buffer its bytes are those of the message; a message is compiled from a    *)
(* builder that holds the task's own list.                                   *)
Unsent == {"begin", "address", "create", "idle", "ready", "miss", "middleware", "refused", "panicked",
           "acquire", "fill", "compile"}

BytesInv ==
    /\ DOMAIN buffer = Ids
    /\ DOMAIN msg = Tasks /\ DOMAIN sent = Tasks
    /\ \A t \in Tasks :
          /\ pc[t] \in HoldsBuffer => buffer[my_buffer[t]] = <<msg[t]>>
          /\ pc[t] \in Unsent => sent[t] = << >>
          /\ sent[t] # << >> => sent[t] = <<msg[t]>>

(* Nothing is serialized at first.                                           *)
LEMMA BytesInit == Init => BytesInv
BY DEF Init, BytesInv, HoldsBuffer

(* A step that leaves the buffers and what was compiled and sent alone.       *)
LEMMA BytesUntouched ==
    ASSUME BytesInv, NEW t \in Tasks, NEW from, NEW to,
           DOMAIN pc = Tasks, pc[t] = from, pc' = [pc EXCEPT ![t] = to],
           to \in HoldsBuffer => from \in HoldsBuffer,
           to \in Unsent => from \in Unsent,
           UNCHANGED <<msg, sent, buffer>>,
           \A u \in Tasks : pc'[u] \in HoldsBuffer => my_buffer'[u] = my_buffer[u]
    PROVE  BytesInv'
BY DEF BytesInv

(* Steps that neither compile nor serialize nor write.                       *)
LEMMA BytesOfOthers ==
    ASSUME PoolInv, BytesInv, NEW t \in Tasks,
           \/ AddressHit(t) \/ AddressMiss(t) \/ AddressInsert(t) \/ get_cached_instructions(t)
           \/ fetch_nonce_info(t) \/ CacheHit(t) \/ CacheMiss(t) \/ CacheInsert(t)
           \/ build_versioned_transaction(t)
           \/ acquire_builder(t) \/ Fill(t) \/ CompilePanics(t) \/ release_builder(t)
    PROVE  BytesInv'
<1>1. UNCHANGED <<msg, sent, buffer, my_buffer>>
    BY DEF AddressHit, AddressMiss, AddressInsert, get_cached_instructions, fetch_nonce_info,
       CacheHit, CacheMiss, CacheInsert, build_versioned_transaction, acquire_builder, Fill,
       CompilePanics, release_builder, buffers
<1>2. PICK to \in PcValues :
        /\ pc' = [pc EXCEPT ![t] = to]
        /\ to \notin HoldsBuffer
        /\ pc[t] \in Unsent \/ to \notin Unsent
    BY DEF AddressHit, AddressMiss, AddressInsert, get_cached_instructions, fetch_nonce_info,
       CacheHit, CacheMiss, CacheInsert, build_versioned_transaction, acquire_builder, Fill,
       CompilePanics, release_builder, At, HoldsBuffer, Unsent, PcValues
<1>3. DOMAIN pc = Tasks
    BY DEF PoolInv
<1> QED  BY <1>1, <1>2, <1>3, BytesUntouched

(* Compile replaces the message of a task that has written nothing yet.       *)
LEMMA CompileBytes == ASSUME PoolInv, BytesInv, NEW t \in Tasks, Compile(t) PROVE BytesInv'
<1>1. /\ pc[t] = "compile" /\ pc' = [pc EXCEPT ![t] = "release"]
      /\ DOMAIN msg' = DOMAIN msg /\ \A u \in Tasks : u # t => msg'[u] = msg[u]
      /\ UNCHANGED <<sent, buffer, my_buffer>>
    BY DEF Compile, At, buffers, BytesInv
<1>2. DOMAIN pc = Tasks
    BY DEF PoolInv
<1>3. pc[t] \in Unsent /\ pc'[t] \notin HoldsBuffer
    BY <1>1, <1>2 DEF Unsent, HoldsBuffer
<1>4. \A u \in Tasks : u # t => pc'[u] = pc[u]
    BY <1>1, <1>2
<1>5. "release" \notin Unsent /\ pc'[t] = "release"
    BY <1>1, <1>2 DEF Unsent
<1> QED  BY <1>1, <1>3, <1>4, <1>5 DEF BytesInv

(* serialize_zero_alloc writes to memory that no other task sends from.       *)
LEMMA SerializeBytes ==
    ASSUME PoolInv, BytesInv, NEW t \in Tasks, serialize_zero_alloc(t) PROVE BytesInv'
<1> DEFINE b == Taken(buffer_pool, my_buffer)
<1>1. /\ pc[t] = "built"
      /\ UNCHANGED <<msg, sent>>
      /\ \/ /\ pc' = [pc EXCEPT ![t] = "serialized"]
            /\ my_buffer' = [my_buffer EXCEPT ![t] = b]
            /\ buffer' = [buffer EXCEPT ![b] = <<msg[t]>>]
         \/ /\ pc' = [pc EXCEPT ![t] = "buffer_lost"]
            /\ UNCHANGED <<my_buffer, buffer>>
    BY DEF serialize_zero_alloc, At, clear
<1>2. DOMAIN pc = Tasks /\ DOMAIN my_buffer = Tasks /\ my_buffer[t] = NoId
    BY <1>1 DEF PoolInv, Exclusive, Holding, HoldsBuffer
<1>3. b \in Ids /\ \A u \in Tasks : my_buffer[u] # b
    BY <1>2, TakeIsExclusive DEF PoolInv
<1> HIDE DEF b
<1>4. CASE UNCHANGED <<my_buffer, buffer>> /\ pc' = [pc EXCEPT ![t] = "buffer_lost"]
    <2>1. "buffer_lost" \notin HoldsBuffer /\ "buffer_lost" \notin Unsent
        BY DEF HoldsBuffer, Unsent
    <2> QED  BY <1>1, <1>2, <1>4, <2>1, BytesUntouched
<1>5. CASE /\ pc' = [pc EXCEPT ![t] = "serialized"]
           /\ my_buffer' = [my_buffer EXCEPT ![t] = b]
           /\ buffer' = [buffer EXCEPT ![b] = <<msg[t]>>]
    <2>1. DOMAIN buffer' = Ids /\ buffer'[b] = <<msg[t]>> /\ \A i \in Ids : i # b => buffer'[i] = buffer[i]
        BY <1>3, <1>5 DEF BytesInv
    <2>2. /\ pc'[t] = "serialized" /\ my_buffer'[t] = b
          /\ \A u \in Tasks : u # t => pc'[u] = pc[u] /\ my_buffer'[u] = my_buffer[u]
        BY <1>2, <1>5
    <2>3. \A u \in Tasks : pc[u] \in HoldsBuffer => my_buffer[u] \in Ids
        BY DEF PoolInv, Exclusive, Holding
    <2>4. "serialized" \notin Unsent
        BY DEF Unsent
    <2>5. \A u \in Tasks : pc'[u] \in HoldsBuffer => buffer'[my_buffer'[u]] = <<msg'[u]>>
        BY <1>1, <1>3, <2>1, <2>2, <2>3 DEF BytesInv
    <2> QED  BY <1>1, <2>1, <2>2, <2>4, <2>5 DEF BytesInv
<1> QED  BY <1>1, <1>4, <1>5

(* What is written, from the buffer or encoded, is what the buffer holds.     *)
LEMMA WriteBytes ==
    ASSUME PoolInv, BytesInv, NEW t \in Tasks,
           serialize_transaction_sync(t) \/ SendFromBuffer(t) \/ DropGuard(t)
    PROVE  BytesInv'
<1>1. /\ pc[t] \in HoldsBuffer
      /\ UNCHANGED <<msg, buffer>>
      /\ \/ UNCHANGED sent
         \/ sent' = [sent EXCEPT ![t] = buffer[my_buffer[t]]]
      /\ \/ /\ pc' = [pc EXCEPT ![t] = "sending"]
            /\ UNCHANGED my_buffer
         \/ /\ \E to \in {"done", "buffer_lost"} : pc' = [pc EXCEPT ![t] = to]
            /\ my_buffer' = [my_buffer EXCEPT ![t] = NoId]
    BY DEF serialize_transaction_sync, SendFromBuffer, DropGuard, return_buffer, At, HoldsBuffer, buffers
<1>2. DOMAIN pc = Tasks /\ DOMAIN my_buffer = Tasks
    BY DEF PoolInv, Exclusive
<1>3. \A u \in Tasks : u # t => pc'[u] = pc[u] /\ my_buffer'[u] = my_buffer[u]
    BY <1>1, <1>2
<1>4. pc'[t] \notin Unsent /\ (pc'[t] \in HoldsBuffer => my_buffer'[t] = my_buffer[t])
    BY <1>1, <1>2 DEF Unsent, HoldsBuffer
<1>5. /\ DOMAIN sent' = Tasks
      /\ \A u \in Tasks : u # t => sent'[u] = sent[u]
      /\ sent'[t] # << >> => sent'[t] = <<msg[t]>>
    BY <1>1 DEF BytesInv
<1> QED  BY <1>1, <1>3, <1>4, <1>5 DEF BytesInv

(* Every step keeps it.                                                      *)
LEMMA BytesStep == ASSUME PoolInv, BytesInv, [Next]_vars PROVE BytesInv'
<1>1. ASSUME NEW t \in Tasks, Build(t) \/ Submit(t) PROVE BytesInv'
    BY <1>1, BytesOfOthers, CompileBytes, SerializeBytes, WriteBytes DEF Build, Submit
<1>2. CASE UNCHANGED <<pc, msg, sent, buffer, my_buffer>>
    BY <1>2 DEF BytesInv
<1>3. ASSUME NEW t \in Tasks, Land(t) PROVE UNCHANGED <<pc, msg, sent, buffer, my_buffer>>
    BY <1>3 DEF Land, buffers
<1>4. UNCHANGED vars => UNCHANGED <<pc, msg, sent, buffer, my_buffer>>
    BY DEF vars, buffers
<1> QED  BY <1>1, <1>2, <1>3, <1>4 DEF Next

(* A service is only ever handed the bytes of the transaction that its own    *)
(* task signed, however the tasks take turns with the pooled buffers.         *)
THEOREM OwnBytes == Spec => []SendsOwnBytes
<1>1. BytesInv => SendsOwnBytes
    BY DEF BytesInv, SendsOwnBytes
<1> QED  BY <1>1, BytesInit, BytesStep, PoolInvariance, PTL DEF Spec

-----------------------------------------------------------------------------
(* The nonce account.  The value a message is signed with is the one the task *)
(* was given; once a transaction has landed, the account is past its value.   *)
NonceInv ==
    /\ durable_nonce \in [Tasks -> Nat \cup {NoNonce}]
    /\ nonce \in Nat
    /\ \A t \in Tasks :
          /\ pc[t] \in Unsent => msg[t] = NoMessage
          /\ msg[t] # NoMessage =>
                msg[t].hash = get_transaction_blockhash(Params[t].recent, durable_nonce[t])
    /\ \A t \in landed :
          /\ t \in Tasks /\ sent[t] # << >>
          /\ durable_nonce[t] # NoNonce => durable_nonce[t] < nonce
    /\ OneTradePerNonce

(* Nothing has been compiled and nothing has landed at first.                *)
LEMMA NonceInit == Init => NonceInv
BY DEF Init, NonceInv, OneTradePerNonce, NoNonce

(* Only fetch_nonce_info changes the value of a task, only Compile a message; *)
(* what was sent is never taken back.                                        *)
LEMMA NonceUntouched ==
    ASSUME NonceInv, NEW t \in Tasks, NEW to,
           DOMAIN pc = Tasks, pc' = [pc EXCEPT ![t] = to],
           pc[t] \in Unsent \/ to \notin Unsent,
           UNCHANGED <<msg, durable_nonce, nonce, landed>>,
           \A u \in Tasks : sent[u] # << >> => sent'[u] # << >>
    PROVE  NonceInv'
<1>1. \A u \in Tasks : pc'[u] \in Unsent => pc[u] \in Unsent
    OBVIOUS
<1>2. OneTradePerNonce'
    BY DEF NonceInv, OneTradePerNonce
<1> QED  BY <1>1, <1>2 DEF NonceInv

(* The steps before the message is compiled, and those of the builder pool.   *)
LEMMA NonceOfOthers ==
    ASSUME PoolInv, NonceInv, NEW t \in Tasks,
           \/ AddressHit(t) \/ AddressMiss(t) \/ AddressInsert(t) \/ get_cached_instructions(t)
           \/ CacheHit(t) \/ CacheMiss(t) \/ CacheInsert(t)
           \/ build_versioned_transaction(t)
           \/ acquire_builder(t) \/ Fill(t) \/ CompilePanics(t) \/ release_builder(t)
    PROVE  NonceInv'
<1>1. UNCHANGED <<msg, sent, durable_nonce, nonce, landed>>
    BY DEF AddressHit, AddressMiss, AddressInsert, get_cached_instructions,
       CacheHit, CacheMiss, CacheInsert, build_versioned_transaction, acquire_builder, Fill,
       CompilePanics, release_builder, chain
<1>2. PICK to \in PcValues :
        /\ pc' = [pc EXCEPT ![t] = to]
        /\ pc[t] \in Unsent \/ to \notin Unsent
    BY DEF AddressHit, AddressMiss, AddressInsert, get_cached_instructions,
       CacheHit, CacheMiss, CacheInsert, build_versioned_transaction, acquire_builder, Fill,
       CompilePanics, release_builder, At, Unsent, PcValues
<1>3. DOMAIN pc = Tasks
    BY DEF PoolInv
<1> QED  BY <1>1, <1>2, <1>3, NonceUntouched

(* Serializing and writing: what is written is the message, if there is one.  *)
LEMMA NonceOfSubmit ==
    ASSUME PoolInv, BytesInv, NonceInv, NEW t \in Tasks, Submit(t) PROVE NonceInv'
<1>1. UNCHANGED <<msg, durable_nonce, nonce, landed>>
    BY DEF Submit, serialize_zero_alloc, serialize_transaction_sync, SendFromBuffer, DropGuard, chain
<1>2. PICK to \in PcValues : pc' = [pc EXCEPT ![t] = to] /\ to \notin Unsent
    BY DEF Submit, serialize_zero_alloc, serialize_transaction_sync, SendFromBuffer, DropGuard,
       At, Unsent, PcValues
<1>3. /\ sent' = sent \/ sent' = [sent EXCEPT ![t] = buffer[my_buffer[t]]]
      /\ sent' # sent => pc[t] \in HoldsBuffer
    BY DEF Submit, serialize_zero_alloc, serialize_transaction_sync, SendFromBuffer, DropGuard,
       At, HoldsBuffer
<1>4. \A u \in Tasks : sent[u] # << >> => sent'[u] # << >>
    <2>1. CASE sent' = sent
        BY <2>1
    <2>2. CASE sent' # sent
        <3>1. buffer[my_buffer[t]] # << >> /\ DOMAIN sent = Tasks
            BY <1>3, <2>2 DEF BytesInv
        <3> QED  BY <1>3, <2>2, <3>1
    <2> QED  BY <2>1, <2>2
<1>5. DOMAIN pc = Tasks
    BY DEF PoolInv
<1> QED  BY <1>1, <1>2, <1>4, <1>5, NonceUntouched

(* fetch_nonce_info comes before there is a message, and so before the        *)
(* transaction can have landed.                                              *)
LEMMA NonceOfFetch ==
    ASSUME PoolInv, BytesInv, NonceInv, NEW t \in Tasks, fetch_nonce_info(t) PROVE NonceInv'
<1>1. PICK n \in {nonce, NoNonce} : durable_nonce' = [durable_nonce EXCEPT ![t] = n]
    BY DEF fetch_nonce_info
<1>2. /\ pc[t] = "idle" /\ pc' = [pc EXCEPT ![t] = "ready"]
      /\ UNCHANGED <<msg, sent, nonce, landed>>
    BY DEF fetch_nonce_info, At, chain
<1>3. pc[t] \in Unsent
    BY <1>2 DEF Unsent
<1>4. msg[t] = NoMessage /\ sent[t] = << >> /\ t \notin landed
    BY <1>3 DEF NonceInv, BytesInv
<1>5. /\ durable_nonce' \in [Tasks -> Nat \cup {NoNonce}]
      /\ \A u \in Tasks : u # t => durable_nonce'[u] = durable_nonce[u]
    BY <1>1 DEF NonceInv
<1>6. \A u \in Tasks : pc'[u] \in Unsent => pc[u] \in Unsent
    <2>1. DOMAIN pc = Tasks
        BY DEF PoolInv
    <2> QED  BY <1>2, <1>3, <2>1
<1>7. OneTradePerNonce'
    BY <1>2, <1>4, <1>5 DEF NonceInv, OneTradePerNonce
<1> QED  BY <1>2, <1>4, <1>5, <1>6, <1>7 DEF NonceInv

(* Compile signs with the hash of the task's nonce.                          *)
LEMMA NonceOfCompile ==
    ASSUME PoolInv, BytesInv, NonceInv, NEW t \in Tasks, Compile(t) PROVE NonceInv'
<1>1. /\ pc[t] = "compile" /\ pc' = [pc EXCEPT ![t] = "release"]
      /\ msg' = [msg EXCEPT ![t] =
                  [ins |-> builder[my_builder[t]],
                   hash |-> get_transaction_blockhash(Params[t].recent, durable_nonce[t])]]
      /\ UNCHANGED <<durable_nonce, sent, nonce, landed>>
    BY DEF Compile, At, chain
<1>2. DOMAIN pc = Tasks /\ DOMAIN msg = Tasks
    BY DEF PoolInv, BytesInv
<1>3. \A u \in Tasks : pc'[u] \in Unsent => u # t /\ pc[u] \in Unsent
    BY <1>1, <1>2 DEF Unsent
<1>4. /\ msg'[t].hash = get_transaction_blockhash(Params[t].recent, durable_nonce[t])
      /\ \A u \in Tasks : u # t => msg'[u] = msg[u]
    BY <1>1, <1>2
<1>5. OneTradePerNonce'
    BY <1>1 DEF NonceInv, OneTradePerNonce
<1> QED  BY <1>1, <1>3, <1>4, <1>5 DEF NonceInv

(* A transaction with a nonce lands while its value is the account's, and     *)
(* takes the account past it.                                                *)
LEMMA NonceOfLand ==
    ASSUME PoolInv, BytesInv, NonceInv, NEW t \in Tasks, Land(t) PROVE NonceInv'
<1>1. /\ msg[t].ins # << >> /\ sent[t] # << >>
      /\ \/ msg[t].hash = Recent
         \/ msg[t].hash = nonce /\ Advances(msg[t])
      /\ landed' = landed \cup {t}
      /\ nonce' = IF Advances(msg[t]) THEN nonce + 1 ELSE nonce
      /\ UNCHANGED <<pc, durable_nonce, msg, sent>>
    <2>1. Len(sent[t]) = 1
        BY DEF Land
    <2>2. sent[t] # << >>
        BY <2>1
    <2>3. sent[t][1] = msg[t]
        BY <2>2 DEF BytesInv
    <2> QED  BY <2>2, <2>3 DEF Land
<1>2. msg[t] # NoMessage
    BY <1>1 DEF NoMessage
<1>3. msg[t].hash = get_transaction_blockhash(Params[t].recent, durable_nonce[t])
    BY <1>2 DEF BytesInv, NonceInv
<1>4. nonce \in Nat /\ nonce' \in Nat /\ nonce' >= nonce
    BY <1>1 DEF NonceInv
<1>5. ASSUME durable_nonce[t] # NoNonce
      PROVE  durable_nonce[t] = nonce /\ nonce < nonce'
    <2>1. msg[t].hash = durable_nonce[t] /\ durable_nonce[t] \in Nat
        BY <1>3, <1>5 DEF get_transaction_blockhash, NonceInv
    <2>2. msg[t].hash # Recent
        BY <2>1 DEF Recent
    <2> QED  BY <1>1, <1>4, <2>1, <2>2
<1>6. \A u \in landed : u \in Tasks /\ (durable_nonce[u] # NoNonce =>
                            durable_nonce[u] \in Nat /\ durable_nonce[u] < nonce)
    BY DEF NonceInv
<1>7. OneTradePerNonce'
    <2> SUFFICES ASSUME NEW u \in landed', NEW v \in landed', u # v, durable_nonce[u] # NoNonce,
                        durable_nonce[u] = durable_nonce[v]
                 PROVE  FALSE
        BY <1>1 DEF OneTradePerNonce
    <2>1. CASE u \in landed /\ v \in landed
        BY <2>1 DEF NonceInv, OneTradePerNonce
    <2>2. CASE u = t /\ v \in landed
        BY <1>4, <1>5, <1>6, <2>2
    <2>3. CASE u \in landed /\ v = t
        BY <1>4, <1>5, <1>6, <2>3
    <2> QED  BY <1>1, <2>1, <2>2, <2>3
<1>8. \A u \in landed' : u \in Tasks /\ sent'[u] # << >> /\
                         (durable_nonce'[u] # NoNonce => durable_nonce'[u] < nonce')
    BY <1>1, <1>2, <1>4, <1>5, <1>6 DEF NonceInv
<1> QED  BY <1>1, <1>4, <1>7, <1>8 DEF NonceInv

(* Every step keeps it.                                                      *)
LEMMA NonceStep == ASSUME PoolInv, BytesInv, NonceInv, [Next]_vars PROVE NonceInv'
<1>1. ASSUME NEW t \in Tasks, Build(t) \/ Submit(t) \/ Land(t) PROVE NonceInv'
    BY <1>1, NonceOfOthers, NonceOfSubmit, NonceOfFetch, NonceOfCompile, NonceOfLand DEF Build
<1>2. CASE UNCHANGED vars
    <2>1. UNCHANGED <<pc, msg, sent, durable_nonce, nonce, landed>>
        BY <1>2 DEF vars, chain
    <2> QED  BY <2>1 DEF NonceInv, OneTradePerNonce
<1> QED  BY <1>1, <1>2 DEF Next

(* Of all the transactions that were signed with one value of the nonce       *)
(* account at most one lands, though any number of tasks may read the same    *)
(* value and nothing marks it as used.                                       *)
THEOREM OnePerNonce == Spec => []OneTradePerNonce
<1>1. Init => BytesInv /\ NonceInv
    BY BytesInit, NonceInit
<1>2. PoolInv /\ (BytesInv /\ NonceInv) /\ [Next]_vars => (BytesInv /\ NonceInv)'
    BY BytesStep, NonceStep
<1>3. NonceInv => OneTradePerNonce
    BY DEF NonceInv
<1> QED  BY <1>1, <1>2, <1>3, PoolInvariance, PTL DEF Spec

-----------------------------------------------------------------------------
(* What a task asked for: the instructions of its own parameters, with the    *)
(* value n of the nonce account.                                             *)
Creation(t) == <<<<"create", t, TokenAddress(Params[t].mint, Params[t].use_seed)>>>>
SwapOf(t) == <<<<"swap", t, TokenAddress(Params[t].mint, Params[t].use_seed)>>>>
Asked(t, n) ==
    add_nonce_instruction(n) \o TipInstruction(Params[t]) \o compute_budget_instructions(Params[t])
        \o (Creation(t) \o SwapOf(t))
Processed(t) == apply_middlewares_process_full_instructions(middlewares, Asked(t, durable_nonce[t]))

(* The compute budget that a key of COMPUTE_BUDGET_CACHE stands for.          *)
BudgetOf(k) == Opt(k[1] > 0, <<<<"unit_price", k[1]>>>>) \o Opt(k[2] > 0, <<<<"unit_limit", k[2]>>>>)

(* A cache holds under a key what the key says, whoever put it there.         *)
CachesHold ==
    /\ \A k \in DOMAIN ata_cache : ata_cache[k] = TokenAddress(k[1], k[2])
    /\ \A k \in DOMAIN instruction_cache : instruction_cache[k] = TokenAddress(k[1], k[2])
    /\ \A k \in DOMAIN cache : cache[k] = BudgetOf(k)

(* What a task has of its own list, by where it is.                          *)
Stage(t) ==
    /\ pc[t] = "create" => full_instructions[t] = SwapOf(t)
    /\ pc[t] \in {"idle", "ready", "miss"} => full_instructions[t] = Creation(t) \o SwapOf(t)
    /\ pc[t] = "middleware" => full_instructions[t] = Asked(t, durable_nonce[t])
    /\ pc[t] \in {"acquire", "fill", "compile"} => full_instructions[t] = Processed(t)
    /\ pc[t] = "compile" => builder[my_builder[t]] = Processed(t)
    /\ msg[t] # NoMessage => msg[t].ins = Processed(t)

OwnInv ==
    /\ DOMAIN full_instructions = Tasks
    /\ CachesHold
    /\ \A t \in Tasks : Stage(t)

(* The caches are empty and no task has a list.                              *)
LEMMA OwnInit == Init => OwnInv
BY DEF Init, OwnInv, CachesHold, Stage

(* What every step leaves of the other tasks.                                *)
LEMMA OthersStage ==
    ASSUME NEW u \in Tasks, Stage(u), UNCHANGED middlewares,
           pc'[u] = pc[u], full_instructions'[u] = full_instructions[u],
           durable_nonce'[u] = durable_nonce[u], msg'[u] = msg[u],
           pc[u] = "compile" => builder'[my_builder'[u]] = builder[my_builder[u]]
    PROVE  Stage(u)'
<1>1. Processed(u)' = Processed(u)
    BY DEF Processed
<1> HIDE DEF Processed
<1> QED  BY <1>1 DEF Stage

(* The keys of the three caches say what is stored under them.               *)
LEMMA KeysSay ==
    ASSUME NEW t \in Tasks
    PROVE  /\ ata_key(Params[t])[1] = Params[t].mint /\ ata_key(Params[t])[2] = Params[t].use_seed
           /\ instruction_key(Params[t])[1] = Params[t].mint
           /\ instruction_key(Params[t])[2] = Params[t].use_seed
           /\ BudgetOf(cache_key(Params[t])) = compute_budget_instructions(Params[t])
           /\ ~Params[t].use_seed =>
                ata_key([Params[t] EXCEPT !.use_seed = FALSE]) = ata_key(Params[t])
<1>1. BudgetOf(cache_key(Params[t])) = compute_budget_instructions(Params[t])
    BY DEF BudgetOf, cache_key, compute_budget_instructions
<1>2. ~Params[t].use_seed => ata_key([Params[t] EXCEPT !.use_seed = FALSE]) = ata_key(Params[t])
    BY ParamsAssumption DEF ata_key
<1> QED  BY <1>1, <1>2 DEF ata_key, instruction_key

(* The lookups of fast_fn.rs: hit, miss and insert give the same address.     *)
LEMMA OwnOfLookup ==
    ASSUME PoolInv, NonceInv, OwnInv, NEW t \in Tasks,
           \/ AddressHit(t) \/ AddressMiss(t) \/ AddressInsert(t) \/ get_cached_instructions(t)
    PROVE  OwnInv'
<1> DEFINE a == TokenAddress(Params[t].mint, Params[t].use_seed)
<1>1. UNCHANGED <<middlewares, durable_nonce, msg, cache, builder, my_builder>>
    BY DEF AddressHit, AddressMiss, AddressInsert, get_cached_instructions, pools
<1>2. /\ DOMAIN pc = Tasks /\ DOMAIN full_instructions = Tasks /\ CachesHold
      /\ \A u \in Tasks : Stage(u)
    BY DEF PoolInv, OwnInv
<1>3. ASSUME ata_key(Params[t]) \in DOMAIN ata_cache PROVE ata_cache[ata_key(Params[t])] = a
    BY <1>2, <1>3, KeysSay DEF CachesHold
<1>4. \/ UNCHANGED ata_cache
      \/ ata_cache' = Insert(ata_cache, ata_key(Params[t]), a)
    BY DEF AddressHit, AddressMiss, AddressInsert, get_cached_instructions, accounts
<1>5. \/ /\ pc[t] = "begin" /\ pc' = [pc EXCEPT ![t] = "address"]
         /\ UNCHANGED <<full_instructions, instruction_cache>>
      \/ /\ pc[t] \in {"begin", "address"} /\ pc' = [pc EXCEPT ![t] = "create"]
         /\ full_instructions' = [full_instructions EXCEPT ![t] = SwapOf(t)]
         /\ UNCHANGED instruction_cache
      \/ /\ pc[t] = "create" /\ pc' = [pc EXCEPT ![t] = "idle"]
         /\ instruction_cache' = Insert(instruction_cache, instruction_key(Params[t]), a)
         /\ full_instructions' = [full_instructions EXCEPT ![t] = Creation(t) \o @]
    <2>1. CASE AddressHit(t)
        BY <1>3, <2>1 DEF AddressHit, At, Deliver, SwapOf, accounts
    <2>2. CASE AddressMiss(t)
        BY <2>2 DEF AddressMiss, At, accounts
    <2>3. CASE AddressInsert(t)
        BY <2>3 DEF AddressInsert, At, Deliver, SwapOf
    <2>4. CASE get_cached_instructions(t)
        <3> DEFINE key == instruction_key(Params[t])
                   p == [Params[t] EXCEPT !.use_seed = FALSE]
                   address == IF ~Params[t].use_seed /\ ata_key(p) \in DOMAIN ata_cache
                              THEN ata_cache[ata_key(p)]
                              ELSE a
                   creation == IF key \in DOMAIN instruction_cache THEN instruction_cache[key]
                               ELSE address
        <3>1. address = a
            BY <1>3, KeysSay
        <3>2. key \in DOMAIN instruction_cache => instruction_cache[key] = a
            BY <1>2, KeysSay DEF CachesHold
        <3>3. creation = a
            BY <3>1, <3>2
        <3>4. /\ At(t, "create", "idle")
              /\ instruction_cache' = Insert(instruction_cache, key, creation)
              /\ full_instructions' =
                    [full_instructions EXCEPT ![t] = <<<<"create", t, creation>>>> \o @]
            BY <2>4 DEF get_cached_instructions
        <3> HIDE DEF creation, address, key
        <3>5. <<<<"create", t, creation>>>> = Creation(t)
            BY <3>3 DEF Creation
        <3> QED  BY <3>3, <3>4, <3>5 DEF At, key
    <2> QED  BY <2>1, <2>2, <2>3, <2>4
<1>6. CachesHold'
    <2>1. \A k \in DOMAIN ata_cache' : ata_cache'[k] = TokenAddress(k[1], k[2])
        <3>1. CASE ata_cache' = Insert(ata_cache, ata_key(Params[t]), a)
            <4>1. TokenAddress(ata_key(Params[t])[1], ata_key(Params[t])[2]) = a
                BY KeysSay
            <4> HIDE DEF a
            <4> QED  BY <1>2, <3>1, <4>1 DEF CachesHold, Insert
        <3>2. CASE UNCHANGED ata_cache
            BY <1>2, <3>2 DEF CachesHold
        <3> QED  BY <1>4, <3>1, <3>2
    <2>2. \A k \in DOMAIN instruction_cache' : instruction_cache'[k] = TokenAddress(k[1], k[2])
        <3>1. CASE instruction_cache' = Insert(instruction_cache, instruction_key(Params[t]), a)
            <4>1. TokenAddress(instruction_key(Params[t])[1], instruction_key(Params[t])[2]) = a
                BY KeysSay
            <4> HIDE DEF a
            <4> QED  BY <1>2, <3>1, <4>1 DEF CachesHold, Insert
        <3>2. CASE UNCHANGED instruction_cache
            BY <1>2, <3>2 DEF CachesHold
        <3> QED  BY <1>5, <3>1, <3>2
    <2> QED  BY <1>1, <1>2, <2>1, <2>2 DEF CachesHold
<1>7. \A u \in Tasks : u # t => Stage(u)'
    <2>1. \A u \in Tasks : u # t => pc'[u] = pc[u] /\ full_instructions'[u] = full_instructions[u]
        BY <1>2, <1>5
    <2> QED  BY <1>1, <1>2, <2>1, OthersStage
<1>8. Stage(t)'
    <2>1. msg'[t] = NoMessage
        BY <1>1, <1>5 DEF NonceInv, Unsent
    <2>2. \/ pc'[t] = "address"
          \/ pc'[t] = "create" /\ full_instructions'[t] = SwapOf(t)
          \/ pc'[t] = "idle" /\ full_instructions'[t] = Creation(t) \o SwapOf(t)
        BY <1>2, <1>5 DEF Stage
    <2> QED  BY <2>1, <2>2 DEF Stage
<1> QED  BY <1>2, <1>5, <1>6, <1>7, <1>8 DEF OwnInv

(* fetch_nonce_info leaves the list alone.                                   *)
LEMMA OwnOfFetch ==
    ASSUME PoolInv, NonceInv, OwnInv, NEW t \in Tasks, fetch_nonce_info(t) PROVE OwnInv'
<1>1. /\ pc[t] = "idle" /\ pc' = [pc EXCEPT ![t] = "ready"]
      /\ \E n : durable_nonce' = [durable_nonce EXCEPT ![t] = n]
      /\ UNCHANGED <<middlewares, ata_cache, instruction_cache, full_instructions, msg, cache,
                     builder, my_builder>>
    BY DEF fetch_nonce_info, At, accounts, pools
<1>2. /\ DOMAIN pc = Tasks /\ DOMAIN full_instructions = Tasks /\ CachesHold
      /\ \A u \in Tasks : Stage(u)
    BY DEF PoolInv, OwnInv
<1>3. CachesHold'
    BY <1>1, <1>2 DEF CachesHold
<1>4. \A u \in Tasks : u # t => Stage(u)'
    <2>1. \A u \in Tasks : u # t => pc'[u] = pc[u] /\ durable_nonce'[u] = durable_nonce[u]
        BY <1>1, <1>2 DEF NonceInv
    <2> QED  BY <1>1, <1>2, <2>1, OthersStage
<1>5. Stage(t)'
    <2>1. msg'[t] = NoMessage
        BY <1>1 DEF NonceInv, Unsent
    <2>2. pc'[t] = "ready" /\ full_instructions'[t] = Creation(t) \o SwapOf(t)
        BY <1>1, <1>2 DEF Stage
    <2> QED  BY <2>1, <2>2 DEF Stage
<1> QED  BY <1>1, <1>2, <1>3, <1>4, <1>5 DEF OwnInv

(* The compute budget: the cached one is the one the task would have built.   *)
LEMMA OwnOfBudget ==
    ASSUME PoolInv, NonceInv, OwnInv, NEW t \in Tasks, CacheHit(t) \/ CacheMiss(t) \/ CacheInsert(t)
    PROVE  OwnInv'
<1> DEFINE key == cache_key(Params[t])
           insts == compute_budget_instructions(Params[t])
<1>1. /\ DOMAIN pc = Tasks /\ DOMAIN full_instructions = Tasks /\ CachesHold
      /\ \A u \in Tasks : Stage(u)
    BY DEF PoolInv, OwnInv
<1>2. BudgetOf(key) = insts
    BY KeysSay
<1>3. key \in DOMAIN cache => cache[key] = insts
    BY <1>1, <1>2 DEF CachesHold
<1>4. /\ UNCHANGED <<middlewares, durable_nonce, msg, ata_cache, instruction_cache, builder, my_builder>>
      /\ cache' = cache \/ cache' = Insert(cache, key, insts)
    BY DEF CacheHit, CacheMiss, CacheInsert, accounts, pools
<1>5. /\ pc[t] \in {"ready", "miss"}
      /\ \/ /\ pc' = [pc EXCEPT ![t] = "miss"]
            /\ UNCHANGED full_instructions
         \/ /\ \E to \in {"middleware", "panicked"} : pc' = [pc EXCEPT ![t] = to]
            /\ full_instructions' = [full_instructions EXCEPT ![t] = Assembled(t, insts)]
    <2>1. CASE CacheHit(t)
        BY <1>3, <2>1 DEF CacheHit, At
    <2>2. CASE CacheMiss(t)
        BY <2>2 DEF CacheMiss, At
    <2>3. CASE CacheInsert(t)
        BY <2>3 DEF CacheInsert, At
    <2> QED  BY <2>1, <2>2, <2>3
<1>6. Assembled(t, insts) = Asked(t, durable_nonce[t])
    BY <1>1, <1>5 DEF Assembled, Asked, Stage
<1> HIDE DEF key, insts
<1>7. CachesHold'
    <2>1. CASE cache' = cache
        BY <1>1, <1>4, <2>1 DEF CachesHold
    <2>2. CASE cache' = Insert(cache, key, insts)
        BY <1>1, <1>2, <1>4, <2>2 DEF CachesHold, Insert
    <2> QED  BY <1>4, <2>1, <2>2
<1>8. \A u \in Tasks : u # t => Stage(u)'
    <2>1. \A u \in Tasks : u # t => pc'[u] = pc[u] /\ full_instructions'[u] = full_instructions[u]
        BY <1>1, <1>5
    <2> QED  BY <1>1, <1>4, <2>1, OthersStage
<1>9. Stage(t)'
    <2>1. msg'[t] = NoMessage
        BY <1>4, <1>5 DEF NonceInv, Unsent
    <2>2. \/ pc'[t] = "panicked"
          \/ pc'[t] = "miss" /\ full_instructions'[t] = Creation(t) \o SwapOf(t)
          \/ pc'[t] = "middleware" /\ full_instructions'[t] = Asked(t, durable_nonce'[t])
        BY <1>1, <1>4, <1>5, <1>6 DEF Stage
    <2> QED  BY <2>1, <2>2 DEF Stage
<1> QED  BY <1>1, <1>5, <1>7, <1>8, <1>9 DEF OwnInv

(* The chain of middlewares works on the list of its own task, and            *)
(* acquire_builder does not touch it.                                        *)
LEMMA OwnOfMiddleware ==
    ASSUME PoolInv, NonceInv, OwnInv, NEW t \in Tasks,
           build_versioned_transaction(t) \/ acquire_builder(t)
    PROVE  OwnInv'
<1>1. /\ DOMAIN pc = Tasks /\ DOMAIN full_instructions = Tasks /\ CachesHold
      /\ \A u \in Tasks : Stage(u)
      /\ DOMAIN my_builder = Tasks
    BY DEF PoolInv, OwnInv, Exclusive
<1>2. /\ UNCHANGED <<middlewares, durable_nonce, msg, ata_cache, instruction_cache, cache, builder>>
      /\ \/ /\ pc[t] = "middleware"
            /\ \E to \in {"refused", "acquire"} : pc' = [pc EXCEPT ![t] = to]
            /\ full_instructions' = [full_instructions EXCEPT ![t] =
                  apply_middlewares_process_full_instructions(middlewares, full_instructions[t])]
            /\ UNCHANGED my_builder
         \/ /\ pc[t] = "acquire" /\ pc' = [pc EXCEPT ![t] = "fill"]
            /\ UNCHANGED full_instructions
            /\ my_builder' = [my_builder EXCEPT ![t] = Taken(builder_pool, my_builder)]
    BY DEF build_versioned_transaction, acquire_builder, At, accounts, pools
<1>3. CachesHold'
    BY <1>1, <1>2 DEF CachesHold
<1>4. \A u \in Tasks : u # t => Stage(u)'
    <2>1. \A u \in Tasks : u # t => /\ pc'[u] = pc[u] /\ full_instructions'[u] = full_instructions[u]
                                    /\ my_builder'[u] = my_builder[u]
        BY <1>1, <1>2
    <2> QED  BY <1>1, <1>2, <2>1, OthersStage
<1>5. Processed(t)' = Processed(t)
    BY <1>2 DEF Processed
<1>6. Stage(t)'
    <2>1. msg'[t] = NoMessage
        BY <1>2 DEF NonceInv, Unsent
    <2>2. \/ pc'[t] = "refused"
          \/ pc'[t] \in {"acquire", "fill"} /\ full_instructions'[t] = Processed(t)
        BY <1>1, <1>2 DEF Stage, Processed
    <2> HIDE DEF Processed
    <2> QED  BY <1>5, <2>1, <2>2 DEF Stage
<1> QED  BY <1>1, <1>2, <1>3, <1>4, <1>6 DEF OwnInv

(* No task writes to the builder from which another one compiles.            *)
LEMMA BuildersApart ==
    ASSUME PoolInv, NEW t \in Tasks, NEW u \in Tasks, u # t, pc[u] = "compile"
    PROVE  my_builder[u] # my_builder[t] /\ my_builder[u] \in Ids
<1>1. my_builder[u] # NoId
    BY DEF PoolInv, Holding, HoldsBuilder
<1> QED  BY <1>1 DEF PoolInv, Exclusive

(* build_zero_alloc between acquire and release.                             *)
LEMMA OwnOfBuilder ==
    ASSUME PoolInv, NonceInv, BytesInv, OwnInv, NEW t \in Tasks,
           Fill(t) \/ Compile(t) \/ CompilePanics(t) \/ release_builder(t)
    PROVE  OwnInv'
<1>1. /\ DOMAIN pc = Tasks /\ DOMAIN full_instructions = Tasks /\ CachesHold
      /\ \A u \in Tasks : Stage(u)
      /\ DOMAIN my_builder = Tasks /\ DOMAIN builder = Ids /\ DOMAIN msg = Tasks
    BY DEF PoolInv, OwnInv, Exclusive, PooledAreEmpty, BytesInv
<1>2. UNCHANGED <<middlewares, durable_nonce, full_instructions, ata_cache, instruction_cache, cache>>
    BY DEF Fill, Compile, CompilePanics, release_builder, accounts
<1>3. /\ \E to : pc' = [pc EXCEPT ![t] = to]
      /\ builder' = builder \/ \E list : builder' = [builder EXCEPT ![my_builder[t]] = list]
      /\ my_builder' = my_builder \/ my_builder' = [my_builder EXCEPT ![t] = NoId]
      /\ msg' = msg \/ \E m : msg' = [msg EXCEPT ![t] = m]
    <2>1. CASE Fill(t)
        BY <2>1 DEF Fill, At
    <2>2. CASE Compile(t)
        BY <2>2 DEF Compile, At, pools
    <2>3. CASE CompilePanics(t)
        BY <2>3 DEF CompilePanics, At
    <2>4. CASE release_builder(t)
        BY <2>4 DEF release_builder, At
    <2> QED  BY <2>1, <2>2, <2>3, <2>4
<1>4. CachesHold'
    BY <1>1, <1>2 DEF CachesHold
<1>5. ASSUME NEW u \in Tasks, u # t PROVE Stage(u)'
    <2>1. pc'[u] = pc[u] /\ my_builder'[u] = my_builder[u] /\ msg'[u] = msg[u]
        BY <1>1, <1>3, <1>5
    <2>2. pc[u] = "compile" => builder'[my_builder'[u]] = builder[my_builder[u]]
        BY <1>1, <1>3, <1>5, <2>1, BuildersApart
    <2> QED  BY <1>1, <1>2, <2>1, <2>2, OthersStage
<1>6. Processed(t)' = Processed(t)
    BY <1>2 DEF Processed
<1>7. Stage(t)'
    <2>1. CASE Fill(t)
        <3>1. /\ pc[t] = "fill" /\ pc'[t] = "compile"
              /\ builder' = [builder EXCEPT ![my_builder[t]] = full_instructions[t]]
              /\ UNCHANGED <<my_builder, msg>>
            BY <1>1, <2>1 DEF Fill, At
        <3>2. my_builder[t] \in Ids
            BY <3>1 DEF PoolInv, Holding, HoldsBuilder, Exclusive
        <3>3. msg'[t] = NoMessage
            BY <3>1 DEF NonceInv, Unsent
        <3>4. full_instructions[t] = Processed(t)
            BY <1>1, <3>1 DEF Stage
        <3>5. builder'[my_builder'[t]] = Processed(t)
            BY <1>1, <3>1, <3>2, <3>4
        <3> HIDE DEF Processed
        <3> QED  BY <1>2, <1>6, <3>1, <3>3, <3>4, <3>5 DEF Stage
    <2>2. CASE Compile(t)
        <3>1. /\ pc[t] = "compile" /\ pc'[t] = "release"
              /\ msg'[t].ins = builder[my_builder[t]]
            BY <1>1, <2>2 DEF Compile, At
        <3>2. msg'[t].ins = Processed(t)
            BY <1>1, <3>1 DEF Stage
        <3> HIDE DEF Processed
        <3> QED  BY <1>6, <3>1, <3>2 DEF Stage
    <2>3. CASE CompilePanics(t) \/ release_builder(t)
        <3>1. pc'[t] \in {"panicked", "built"} /\ UNCHANGED msg
            BY <1>1, <2>3 DEF CompilePanics, release_builder, At
        <3> HIDE DEF Processed
        <3> QED  BY <1>1, <1>6, <3>1 DEF Stage
    <2> QED  BY <2>1, <2>2, <2>3
<1> QED  BY <1>1, <1>2, <1>4, <1>5, <1>7 DEF OwnInv

(* Serializing, sending and landing change no list.                          *)
LEMMA OwnOfSubmit ==
    ASSUME PoolInv, OwnInv, NEW t \in Tasks, Submit(t) \/ Land(t) PROVE OwnInv'
<1>1. /\ UNCHANGED <<middlewares, durable_nonce, full_instructions, ata_cache, instruction_cache, cache,
                     msg, builder, my_builder>>
      /\ \/ UNCHANGED pc
         \/ \E to \in {"serialized", "sending", "buffer_lost", "done"} : pc' = [pc EXCEPT ![t] = to]
    BY DEF Submit, serialize_zero_alloc, serialize_transaction_sync, SendFromBuffer, DropGuard, Land,
       At, accounts, pools
<1>2. DOMAIN pc = Tasks
    BY DEF PoolInv
<1>3. CachesHold'
    BY <1>1 DEF OwnInv, CachesHold
<1>4. ASSUME NEW u \in Tasks PROVE Stage(u)'
    <2>1. Processed(u)' = Processed(u) /\ Stage(u)
        BY <1>1 DEF Processed, OwnInv
    <2>2. pc'[u] = pc[u] \/ pc'[u] \in {"serialized", "sending", "buffer_lost", "done"}
        BY <1>1, <1>2
    <2> HIDE DEF Processed
    <2> QED  BY <1>1, <2>1, <2>2 DEF Stage
<1> QED  BY <1>1, <1>3, <1>4 DEF OwnInv

(* Every step keeps it.                                                      *)
LEMMA OwnStep == ASSUME PoolInv, BytesInv, NonceInv, OwnInv, [Next]_vars PROVE OwnInv'
<1>1. ASSUME NEW t \in Tasks, Build(t) \/ Submit(t) \/ Land(t) PROVE OwnInv'
    BY <1>1, OwnOfLookup, OwnOfFetch, OwnOfBudget, OwnOfMiddleware, OwnOfBuilder, OwnOfSubmit DEF Build
<1>2. CASE UNCHANGED vars
    <2>1. UNCHANGED <<pc, middlewares, durable_nonce, full_instructions, ata_cache, instruction_cache,
                      cache, msg, builder, my_builder>>
        BY <1>2 DEF vars, accounts, pools
    <2>2. ASSUME NEW u \in Tasks PROVE Stage(u)'
        BY <2>1, OthersStage DEF OwnInv
    <2>3. CachesHold'
        BY <2>1 DEF OwnInv, CachesHold
    <2> QED  BY <2>1, <2>2, <2>3 DEF OwnInv
<1> QED  BY <1>1, <1>2 DEF Next

-----------------------------------------------------------------------------
(* The number of memos the first i middlewares append, and that many memos.   *)
Appended(ch, i) == Cardinality({j \in 1..i : ch[j] = "append"})
Memos(k) == [j \in 1..k |-> <<"memo", 0>>]

(* One more memo.                                                            *)
LEMMA MoreMemos ==
    ASSUME NEW S, NEW ins \in Seq(S), NEW k \in Nat
    PROVE  Append(ins \o Memos(k), <<"memo", 0>>) = ins \o Memos(k + 1)
<1> DEFINE memo == <<"memo", 0>>
           X == S \cup {memo}
<1>1. ins \in Seq(X) /\ Memos(k) \in Seq(X) /\ Memos(k + 1) \in Seq(X) /\ memo \in X
    BY DEF Memos
<1>2. Len(Memos(k)) = k /\ Len(Memos(k + 1)) = k + 1
    BY DEF Memos
<1>3. \A j \in 1..k : Memos(k)[j] = Memos(k + 1)[j]
    BY DEF Memos
<1>4. Memos(k + 1)[k + 1] = memo
    BY DEF Memos
<1> HIDE DEF X, memo
<1>5. Append(Memos(k), memo) = Memos(k + 1)
    <2>1. /\ Append(Memos(k), memo) \in Seq(X) /\ Len(Append(Memos(k), memo)) = k + 1
          /\ \A j \in 1..k : Append(Memos(k), memo)[j] = Memos(k)[j]
          /\ Append(Memos(k), memo)[k + 1] = memo
        BY <1>1, <1>2, AppendProperties
    <2>2. \A j \in 1..(k + 1) : j \in 1..k \/ j = k + 1
        OBVIOUS
    <2>3. \A j \in 1..(k + 1) : Append(Memos(k), memo)[j] = Memos(k + 1)[j]
        BY <1>3, <1>4, <2>1, <2>2
    <2> QED  BY <1>1, <1>2, <2>1, <2>3, SeqEqual
<1>6. Append(Memos(k), memo) = Memos(k) \o <<memo>> /\ <<memo>> \in Seq(X)
    BY <1>1, AppendIsConcat
<1>7. Append(ins \o Memos(k), memo) = (ins \o Memos(k)) \o <<memo>>
    BY <1>1, ConcatProperties, AppendIsConcat
<1>8. (ins \o Memos(k)) \o <<memo>> = ins \o (Memos(k) \o <<memo>>)
    BY <1>1, <1>6, ConcatAssociative
<1> QED  BY <1>5, <1>6, <1>7, <1>8 DEF memo

(* A list of two instructions with memos behind it is neither empty nor the   *)
(* mark of a failure.                                                        *)
LEMMA MemosKeepLength ==
    ASSUME NEW S, NEW ins \in Seq(S), Len(ins) >= 2, NEW k \in Nat
    PROVE  ins \o Memos(k) \notin {<< >>, Failed}
<1> DEFINE X == S \cup {<<"memo", 0>>}
<1>1. ins \in Seq(X) /\ Memos(k) \in Seq(X)
    BY DEF Memos
<1>2. Len(Memos(k)) = k
    BY DEF Memos
<1>3. Len(ins \o Memos(k)) = Len(ins) + k /\ Len(ins) \in Nat
    <2> HIDE DEF X
    <2>1. Len(ins \o Memos(k)) = Len(ins) + Len(Memos(k)) /\ Len(ins) \in Nat
        BY <1>1, ConcatProperties, LenProperties
    <2> QED  BY <1>2, <2>1
<1>4. Len(<< >>) = 0 /\ Len(Failed) = 1
    BY DEF Failed
<1> DEFINE out == ins \o Memos(k)
<1>5. Len(out) # 0 /\ Len(out) # 1
    BY <1>3
<1> HIDE DEF out
<1>6. out # << >> /\ out # Failed
    BY <1>4, <1>5, Zenon
<1> QED  BY <1>6 DEF out

(* What the chain appends, one middleware further on.                        *)
LEMMA AppendedStep ==
    ASSUME NEW ch, NEW i \in Nat, i > 0
    PROVE  /\ Appended(ch, i - 1) \in Nat
           /\ Appended(ch, i) = Appended(ch, i - 1) + (IF ch[i] = "append" THEN 1 ELSE 0)
<1> DEFINE A(m) == {j \in 1..m : ch[j] = "append"}
<1>1. IsFiniteSet(1..(i - 1)) /\ A(i - 1) \subseteq 1..(i - 1)
    BY FS_Interval
<1>2. IsFiniteSet(A(i - 1))
    BY <1>1, FS_Subset
<1>3. Cardinality(A(i - 1)) \in Nat
    BY <1>2, FS_CardinalityType
<1>4. CASE ch[i] = "append"
    <2>1. A(i) = A(i - 1) \cup {i} /\ i \notin A(i - 1)
        BY <1>4
    <2> HIDE DEF A
    <2>2. Cardinality(A(i)) = Cardinality(A(i - 1)) + 1
        BY <1>2, <2>1, FS_AddElement
    <2>3. Appended(ch, i) = Cardinality(A(i)) /\ Appended(ch, i - 1) = Cardinality(A(i - 1))
        BY DEF A, Appended
    <2> QED  BY <1>3, <1>4, <2>2, <2>3
<1>5. CASE ch[i] # "append"
    <2>1. A(i) = A(i - 1)
        BY <1>5
    <2> HIDE DEF A
    <2>2. Appended(ch, i) = Cardinality(A(i)) /\ Appended(ch, i - 1) = Cardinality(A(i - 1))
        BY DEF A, Appended
    <2> QED  BY <1>3, <1>5, <2>1, <2>2
<1> QED  BY <1>4, <1>5

(* What is left of the list after the first i middlewares of a chain: the     *)
(* mark of a failure, nothing once one of them emptied it, or the list with   *)
(* the memos of those that appended.                                         *)
AfterChain(ch, ins, i, out) ==
    \/ out = Failed
    \/ out = << >> /\ \E j \in 1..i : ch[j] = "clear"
    \/ (\A j \in 1..i : ch[j] # "clear") /\ out = ins \o Memos(Appended(ch, i))

(* One middleware of the loop of traits.rs.                                   *)
LEMMA ChainStep ==
    ASSUME NEW ch \in Seq({"log", "append", "clear", "fail"}), NEW S, NEW ins \in Seq(S), Len(ins) >= 2,
           NEW i \in 1..Len(ch), NEW out, AfterChain(ch, ins, i - 1, out)
    PROVE  AfterChain(ch, ins, i,
               IF out \in {<< >>, Failed} THEN out ELSE process_full_instructions(ch[i], out))
<1>1. /\ Len(ch) \in Nat /\ i \in Nat /\ i > 0 /\ i - 1 \in Nat
      /\ ch[i] \in {"log", "append", "clear", "fail"}
    OBVIOUS
<1>2. \A j \in 1..(i - 1) : j \in 1..i
    BY <1>1
<1>3. \A j \in 1..i : j \in 1..(i - 1) \/ j = i
    BY <1>1
<1>4. CASE out = Failed
    BY <1>4 DEF AfterChain
<1>5. CASE out = << >> /\ \E j \in 1..(i - 1) : ch[j] = "clear"
    BY <1>2, <1>5 DEF AfterChain
<1>6. CASE (\A j \in 1..(i - 1) : ch[j] # "clear") /\ out = ins \o Memos(Appended(ch, i - 1))
    <2>1. /\ Appended(ch, i - 1) \in Nat
          /\ Appended(ch, i) = Appended(ch, i - 1) + (IF ch[i] = "append" THEN 1 ELSE 0)
        BY <1>1, AppendedStep
    <2>2. out \notin {<< >>, Failed}
        BY <1>6, <2>1, MemosKeepLength
    <2>3. CASE ch[i] = "log"
        <3>1. process_full_instructions(ch[i], out) = out /\ Appended(ch, i) = Appended(ch, i - 1)
            BY <2>1, <2>3 DEF process_full_instructions
        <3>2. \A j \in 1..i : ch[j] # "clear"
            BY <1>3, <1>6, <2>3
        <3> QED  BY <1>6, <2>2, <3>1, <3>2 DEF AfterChain
    <2>4. CASE ch[i] = "append"
        <3>1. process_full_instructions(ch[i], out) = Append(out, <<"memo", 0>>)
            BY <2>4 DEF process_full_instructions
        <3>2. Append(out, <<"memo", 0>>) = ins \o Memos(Appended(ch, i - 1) + 1)
            BY <1>6, <2>1, MoreMemos
        <3>3. Appended(ch, i) = Appended(ch, i - 1) + 1
            BY <2>1, <2>4
        <3>4. \A j \in 1..i : ch[j] # "clear"
            BY <1>3, <1>6, <2>4
        <3> QED  BY <2>2, <3>1, <3>2, <3>3, <3>4 DEF AfterChain
    <2>5. CASE ch[i] = "clear"
        <3>1. process_full_instructions(ch[i], out) = << >>
            BY <2>5 DEF process_full_instructions
        <3>2. i \in 1..i
            BY <1>1
        <3> QED  BY <2>2, <2>5, <3>1, <3>2 DEF AfterChain
    <2>6. CASE ch[i] = "fail"
        BY <2>2, <2>6 DEF AfterChain, process_full_instructions
    <2> QED  BY <1>1, <2>3, <2>4, <2>5, <2>6
<1> QED  BY <1>4, <1>5, <1>6 DEF AfterChain

(* The whole chain, by induction over the number of middlewares that ran.     *)
LEMMA ChainResult ==
    ASSUME NEW ch \in Seq({"log", "append", "clear", "fail"}), NEW S, NEW ins \in Seq(S), Len(ins) >= 2
    PROVE  AfterChain(ch, ins, Len(ch), apply_middlewares_process_full_instructions(ch, ins))
<1> DEFINE n == Len(ch)
           V == {<< >>, Failed} \cup {ins \o Memos(k) : k \in Nat}
           Turn(i, out) == IF out \in {<< >>, Failed} THEN out ELSE process_full_instructions(ch[i], out)
           Body == [x \in (1..n) \X V |-> Turn(x[1], x[2])]
           Is(f) == f = [i \in 0..n |-> IF i = 0 THEN ins
                                        ELSE IF f[i - 1] \in {<< >>, Failed} THEN f[i - 1]
                                        ELSE process_full_instructions(ch[i], f[i - 1])]
           list == CHOOSE f : Is(f)
<1>1. n \in Nat /\ \A i \in 1..n : ch[i] \in {"log", "append", "clear", "fail"}
    OBVIOUS
<1>2. ins \in V
    <2>1. ins = ins \o Memos(0)
        <3>1. Memos(0) = << >>
            BY DEF Memos
        <3> QED  BY <3>1, ConcatEmptySeq
    <2> QED  BY <2>1
<1>3. ASSUME NEW i \in 1..n, NEW out \in V PROVE Turn(i, out) \in V
    <2>1. CASE out \in {<< >>, Failed}
        BY <2>1
    <2>2. CASE out \notin {<< >>, Failed}
        <3>1. PICK k \in Nat : out = ins \o Memos(k)
            BY <2>2
        <3>2. Append(out, <<"memo", 0>>) = ins \o Memos(k + 1) /\ k + 1 \in Nat
            <4>1. Append(ins \o Memos(k), <<"memo", 0>>) = ins \o Memos(k + 1)
                BY MoreMemos
            <4>2. k + 1 \in Nat
                OBVIOUS
            <4> HIDE DEF V
            <4> QED  BY <3>1, <4>1, <4>2, Zenon
        <3>3. process_full_instructions(ch[i], out) \in {out, Append(out, <<"memo", 0>>), << >>, Failed}
            BY <1>1 DEF process_full_instructions
        <3>4. Append(out, <<"memo", 0>>) \in V
            BY <3>2
        <3> QED  BY <2>2, <3>3, <3>4
    <2> QED  BY <2>1, <2>2
<1> HIDE DEF V, Turn
<1>4. Body \in [(1..n) \X V -> V]
    BY <1>3
<1>5. PICK F \in [0..n -> V] : F[0] = ins /\ \A i \in 1..n : F[i] = Body[<<i, F[i - 1]>>]
    <2> HIDE DEF Body, n
    <2>1. n \in Nat /\ ins \in V /\ IsBody(Body, n, V)
        BY <1>1, <1>2, <1>4 DEF IsBody
    <2>2. \E F : AreStates(F, n, V, ins, Body)
        BY <2>1, LoopHasStates
    <2> QED  BY <2>2 DEF AreStates
<1>6. \A i \in 1..n : F[i] = Turn(i, F[i - 1])
    <2> SUFFICES ASSUME NEW i \in 1..n PROVE F[i] = Turn(i, F[i - 1])
        OBVIOUS
    <2>1. i - 1 \in 0..n
        BY <1>1
    <2>2. <<i, F[i - 1]>> \in (1..n) \X V
        BY <1>5, <2>1
    <2> QED  BY <1>5, <2>2
<1> HIDE DEF Body
<1>7. Is(F)
    <2>1. F = [i \in 0..n |-> F[i]]
        BY <1>5
    <2>2. ASSUME NEW i \in 0..n
          PROVE  F[i] = IF i = 0 THEN ins ELSE IF F[i - 1] \in {<< >>, Failed} THEN F[i - 1]
                                               ELSE process_full_instructions(ch[i], F[i - 1])
        <3>1. CASE i = 0
            BY <1>5, <3>1
        <3>2. CASE i # 0
            <4>1. i \in 1..n
                BY <1>1, <3>2
            <4> QED  BY <1>6, <3>2, <4>1 DEF Turn
        <3> QED  BY <3>1, <3>2
    <2> QED  BY <2>1, <2>2
<1>8. Is(list)
    <2> HIDE DEF Is
    <2> QED  BY <1>7
<1>9. apply_middlewares_process_full_instructions(ch, ins) = list[n]
    BY DEF apply_middlewares_process_full_instructions
<1>10. list[0] = ins /\ \A i \in 1..n : list[i] = Turn(i, list[i - 1])
    <2> HIDE DEF list
    <2>1. 0 \in 0..n /\ \A i \in 1..n : i \in 0..n /\ i # 0
        BY <1>1
    <2> QED  BY <1>8, <2>1 DEF Turn
<1> HIDE DEF list, Is
<1> DEFINE Wrong == {i \in 0..n : ~AfterChain(ch, ins, i, list[i])}
<1>11. SUFFICES ASSUME Wrong # {} PROVE FALSE
    <2>1. n \in 0..n
        BY <1>1
    <2> QED  BY <1>9, <2>1
<1>12. PICK m \in Wrong : \A k \in Wrong : m <= k
    <2>1. Wrong \in SUBSET Nat
        OBVIOUS
    <2> HIDE DEF Wrong
    <2> QED  BY <1>11, <2>1, Least
<1>13. CASE m = 0
    <2>1. Appended(ch, 0) = 0 /\ Memos(0) = << >>
        <3>1. {j \in 1..0 : ch[j] = "append"} = {}
            OBVIOUS
        <3> QED  BY <3>1, FS_EmptySet DEF Appended, Memos
    <2>2. ins \o << >> = ins
        BY ConcatEmptySeq
    <2>3. AfterChain(ch, ins, 0, ins)
        BY <2>1, <2>2 DEF AfterChain
    <2> QED  BY <1>10, <1>12, <1>13, <2>3
<1>14. CASE m # 0
    <2>1. m \in 1..n /\ m - 1 \in 0..n /\ m - 1 \notin Wrong
        BY <1>1, <1>12, <1>14
    <2>2. AfterChain(ch, ins, m - 1, list[m - 1])
        BY <2>1
    <2>3. AfterChain(ch, ins, m, Turn(m, list[m - 1]))
        BY <2>1, <2>2, ChainStep DEF Turn
    <2> QED  BY <1>10, <1>12, <2>1, <2>3
<1> QED  BY <1>13, <1>14

(* What a task asks for is a list of at least the creation and the swap, and  *)
(* with the memos of the middlewares it is what the message should hold.      *)
LEMMA AskedIsList ==
    ASSUME NEW t \in Tasks, NEW n, NEW k \in Nat
    PROVE  /\ \E S : Asked(t, n) \in Seq(S)
           /\ Len(Asked(t, n)) >= 2
           /\ Asked(t, n) \o Memos(k) =
                Opt(n # NoNonce, <<<<"advance_nonce", 0>>>>)
                     \o Opt(Params[t].with_tip /\ Params[t].tip > 0, <<<<"tip", Params[t].tip>>>>)
                     \o Opt(Params[t].unit_price > 0, <<<<"unit_price", Params[t].unit_price>>>>)
                     \o Opt(Params[t].unit_limit > 0, <<<<"unit_limit", Params[t].unit_limit>>>>)
                     \o <<<<"create", t, TokenAddress(Params[t].mint, Params[t].use_seed)>>,
                          <<"swap", t, TokenAddress(Params[t].mint, Params[t].use_seed)>>>> \o Memos(k)
<1> DEFINE S == {<<"advance_nonce", 0>>, <<"tip", Params[t].tip>>, <<"unit_price", Params[t].unit_price>>,
                 <<"unit_limit", Params[t].unit_limit>>,
                 <<"create", t, TokenAddress(Params[t].mint, Params[t].use_seed)>>,
                 <<"swap", t, TokenAddress(Params[t].mint, Params[t].use_seed)>>}
           a == Opt(n # NoNonce, <<<<"advance_nonce", 0>>>>)
           b == Opt(Params[t].with_tip /\ Params[t].tip > 0, <<<<"tip", Params[t].tip>>>>)
           c == Opt(Params[t].unit_price > 0, <<<<"unit_price", Params[t].unit_price>>>>)
           d == Opt(Params[t].unit_limit > 0, <<<<"unit_limit", Params[t].unit_limit>>>>)
           e == <<<<"create", t, TokenAddress(Params[t].mint, Params[t].use_seed)>>,
                  <<"swap", t, TokenAddress(Params[t].mint, Params[t].use_seed)>>>>
<1>1. a \in Seq(S) /\ b \in Seq(S) /\ c \in Seq(S) /\ d \in Seq(S)
    <2>1. /\ <<"advance_nonce", 0>> \in S /\ <<"tip", Params[t].tip>> \in S
          /\ <<"unit_price", Params[t].unit_price>> \in S /\ <<"unit_limit", Params[t].unit_limit>> \in S
        BY Zenon
    <2> HIDE DEF S
    <2>2. << >> \in Seq(S) /\ \A x \in S : <<x>> \in Seq(S)
        OBVIOUS
    <2> QED  BY <2>1, <2>2, Zenon DEF Opt
<1>2. e \in Seq(S) /\ Len(e) = 2
    OBVIOUS
<1>3. Creation(t) \o SwapOf(t) = e
    <2> DEFINE x == <<"create", t, TokenAddress(Params[t].mint, Params[t].use_seed)>>
               y == <<"swap", t, TokenAddress(Params[t].mint, Params[t].use_seed)>>
    <2>1. Creation(t) = <<x>> /\ SwapOf(t) = <<y>> /\ e = <<x, y>>
        BY DEF Creation, SwapOf
    <2> HIDE DEF x, y, e
    <2>2. <<x>> \o <<y>> = <<x, y>>
        <3> DEFINE X == {x, y}
        <3>1. <<x>> \in Seq(X) /\ <<y>> \in Seq(X) /\ <<x, y>> \in Seq(X)
            OBVIOUS
        <3>2. Len(<<x>>) = 1 /\ Len(<<y>>) = 1 /\ Len(<<x, y>>) = 2
            OBVIOUS
        <3> HIDE DEF X
        <3>3. /\ <<x>> \o <<y>> \in Seq(X) /\ Len(<<x>> \o <<y>>) = Len(<<x>>) + Len(<<y>>)
              /\ \A i \in 1..Len(<<x>>) + Len(<<y>>) :
                    (<<x>> \o <<y>>)[i] = IF i <= Len(<<x>>) THEN <<x>>[i] ELSE <<y>>[i - Len(<<x>>)]
            BY <3>1, ConcatProperties
        <3> DEFINE xy == <<x>> \o <<y>>
        <3>4. Len(xy) = 2 /\ \A i \in 1..2 : xy[i] = IF i <= 1 THEN <<x>>[i] ELSE <<y>>[i - 1]
            BY <3>2, <3>3
        <3>5. xy[1] = x /\ xy[2] = y
            <4> HIDE DEF xy
            <4> QED  BY <3>4
        <3>6. xy \in Seq(X)
            BY <3>3
        <3> HIDE DEF xy
        <3>7. \A i \in 1..Len(xy) : xy[i] = <<x, y>>[i]
            BY <3>4, <3>5
        <3>8. xy = <<x, y>>
            BY <3>1, <3>2, <3>4, <3>6, <3>7, SeqEqual
        <3> QED  BY <3>8 DEF xy
    <2> QED  BY <2>1, <2>2, Zenon
<1>4. /\ add_nonce_instruction(n) = a /\ TipInstruction(Params[t]) = b
      /\ compute_budget_instructions(Params[t]) = c \o d
    BY DEF add_nonce_instruction, TipInstruction, compute_budget_instructions
<1>5. Asked(t, n) = a \o b \o (c \o d) \o e
    BY <1>3, <1>4, Zenon DEF Asked
<1> HIDE DEF S, a, b, c, d, e
<1>6. a \o b \in Seq(S) /\ c \o d \in Seq(S)
    BY <1>1, ConcatProperties
<1>7. (a \o b) \o (c \o d) = a \o b \o c \o d
    <2> DEFINE ab == a \o b
    <2>1. ab \in Seq(S)
        BY <1>6
    <2> HIDE DEF ab
    <2>2. (ab \o c) \o d = ab \o (c \o d)
        BY <1>1, <2>1, ConcatAssociative
    <2> QED  BY <2>2, Zenon DEF ab
<1>8. a \o b \o c \in Seq(S)
    BY <1>1, <1>6, ConcatProperties
<1>9. a \o b \o c \o d \in Seq(S)
    BY <1>1, <1>8, ConcatProperties
<1>10. a \o b \o c \o d \o e \in Seq(S) /\ Len(a \o b \o c \o d \o e) = Len(a \o b \o c \o d) + 2
    <2> DEFINE abcd == a \o b \o c \o d
    <2>1. abcd \in Seq(S)
        BY <1>9
    <2> HIDE DEF abcd
    <2>2. abcd \o e \in Seq(S) /\ Len(abcd \o e) = Len(abcd) + Len(e)
        BY <1>2, <2>1, ConcatProperties
    <2> QED  BY <1>2, <2>2 DEF abcd
<1>11. Len(a \o b \o c \o d) \in Nat
    BY <1>9, LenProperties
<1>12. Asked(t, n) = a \o b \o c \o d \o e
    BY <1>5, <1>7, Zenon
<1>13. Asked(t, n) \in Seq(S) /\ Len(Asked(t, n)) >= 2
    BY <1>10, <1>11, <1>12
<1> QED  BY <1>12, <1>13, Zenon DEF a, b, c, d, e

(* The chain has not failed on a task that went on to acquire a builder.      *)
AcceptedInv ==
    /\ middlewares \in MiddlewareChains
    /\ \A t \in Tasks :
          pc[t] \in {"acquire", "fill", "compile"} \/ msg[t] # NoMessage => Processed(t) # Failed

(* No task has acquired one at first.                                        *)
LEMMA AcceptedInit == Init => AcceptedInv
BY DEF Init, AcceptedInv

(* A step that takes no task on to acquire.                                   *)
LEMMA AcceptedUntouched ==
    ASSUME AcceptedInv, UNCHANGED middlewares,
           \A u \in Tasks :
              \/ /\ durable_nonce'[u] = durable_nonce[u]
                 /\ pc'[u] \in {"acquire", "fill", "compile"} => pc[u] \in {"acquire", "fill", "compile"}
                 /\ msg'[u] # NoMessage => msg[u] # NoMessage \/ pc[u] = "compile"
              \/ pc'[u] \notin {"acquire", "fill", "compile"} /\ msg'[u] = NoMessage
    PROVE  AcceptedInv'
<1>1. \A u \in Tasks : durable_nonce'[u] = durable_nonce[u] => Processed(u)' = Processed(u)
    BY DEF Processed
<1> HIDE DEF Processed
<1> QED  BY <1>1 DEF AcceptedInv

(* Every step keeps it: build_versioned_transaction returns the error of the  *)
(* chain before it acquires a builder.                                       *)
LEMMA AcceptedStep == ASSUME PoolInv, BytesInv, NonceInv, OwnInv, AcceptedInv, [Next]_vars PROVE AcceptedInv'
<1>1. DOMAIN pc = Tasks /\ DOMAIN msg = Tasks /\ DOMAIN durable_nonce = Tasks
    BY DEF PoolInv, BytesInv, NonceInv
<1>2. ASSUME NEW t \in Tasks,
             \/ AddressHit(t) \/ AddressMiss(t) \/ AddressInsert(t) \/ get_cached_instructions(t)
             \/ CacheHit(t) \/ CacheMiss(t) \/ CacheInsert(t)
             \/ acquire_builder(t) \/ Fill(t) \/ CompilePanics(t) \/ release_builder(t)
             \/ Submit(t) \/ Land(t)
      PROVE  AcceptedInv'
    <2>1. UNCHANGED <<middlewares, durable_nonce, msg>>
        BY <1>2 DEF AddressHit, AddressMiss, AddressInsert, get_cached_instructions, CacheHit, CacheMiss,
           CacheInsert, acquire_builder, Fill, CompilePanics, release_builder, Land, Submit,
           serialize_zero_alloc, serialize_transaction_sync, SendFromBuffer, DropGuard
    <2>2. \/ UNCHANGED pc
          \/ \E to \in {"address", "create", "idle", "miss", "middleware", "panicked", "fill", "compile",
                        "built", "serialized", "sending", "buffer_lost", "done"} :
                /\ pc' = [pc EXCEPT ![t] = to]
                /\ to \in {"fill", "compile"} => pc[t] \in {"acquire", "fill"}
        BY <1>2 DEF AddressHit, AddressMiss, AddressInsert, get_cached_instructions, CacheHit, CacheMiss,
           CacheInsert, acquire_builder, Fill, CompilePanics, release_builder, Land, Submit,
           serialize_zero_alloc, serialize_transaction_sync, SendFromBuffer, DropGuard, At
    <2>3. \A u \in Tasks :
             pc'[u] \in {"acquire", "fill", "compile"} => pc[u] \in {"acquire", "fill", "compile"}
        BY <1>1, <2>2
    <2> QED  BY <2>1, <2>3, AcceptedUntouched
<1>3. ASSUME NEW t \in Tasks, fetch_nonce_info(t) PROVE AcceptedInv'
    <2>1. /\ pc[t] = "idle" /\ pc' = [pc EXCEPT ![t] = "ready"]
          /\ \E n : durable_nonce' = [durable_nonce EXCEPT ![t] = n]
          /\ UNCHANGED <<middlewares, msg>>
        BY <1>3 DEF fetch_nonce_info, At
    <2>2. msg'[t] = NoMessage
        BY <2>1 DEF NonceInv, Unsent
    <2>3. \A u \in Tasks : u # t => pc'[u] = pc[u] /\ durable_nonce'[u] = durable_nonce[u]
        BY <1>1, <2>1
    <2>4. pc'[t] = "ready"
        BY <1>1, <2>1
    <2> QED  BY <2>1, <2>2, <2>3, <2>4, AcceptedUntouched
<1>4. ASSUME NEW t \in Tasks, Compile(t) PROVE AcceptedInv'
    <2>1. /\ pc[t] = "compile" /\ pc' = [pc EXCEPT ![t] = "release"]
          /\ \E m : msg' = [msg EXCEPT ![t] = m]
          /\ UNCHANGED <<middlewares, durable_nonce>>
        BY <1>4 DEF Compile, At
    <2>2. \A u \in Tasks : u # t => pc'[u] = pc[u] /\ msg'[u] = msg[u]
        BY <1>1, <2>1
    <2>3. pc'[t] = "release"
        BY <1>1, <2>1
    <2> QED  BY <2>1, <2>2, <2>3, AcceptedUntouched
<1>5. ASSUME NEW t \in Tasks, build_versioned_transaction(t) PROVE AcceptedInv'
    <2>1. /\ pc[t] = "middleware"
          /\ pc' = [pc EXCEPT ![t] =
                       IF apply_middlewares_process_full_instructions(middlewares, full_instructions[t]) = Failed
                       THEN "refused" ELSE "acquire"]
          /\ UNCHANGED <<middlewares, durable_nonce, msg>>
        BY <1>5 DEF build_versioned_transaction, At
    <2>2. full_instructions[t] = Asked(t, durable_nonce[t])
        BY <2>1 DEF OwnInv, Stage
    <2>3. pc'[t] = IF Processed(t) = Failed THEN "refused" ELSE "acquire"
        BY <1>1, <2>1, <2>2 DEF Processed
    <2>4. msg[t] = NoMessage
        BY <2>1 DEF NonceInv, Unsent
    <2>5. \A u \in Tasks : u # t => pc'[u] = pc[u]
        BY <1>1, <2>1
    <2>6. \A u \in Tasks : Processed(u)' = Processed(u)
        BY <2>1 DEF Processed
    <2> HIDE DEF Processed
    <2> QED  BY <2>1, <2>3, <2>4, <2>5, <2>6 DEF AcceptedInv
<1>6. CASE UNCHANGED vars
    <2>1. UNCHANGED <<pc, middlewares, durable_nonce, msg>>
        BY <1>6 DEF vars
    <2> QED  BY <2>1, AcceptedUntouched
<1> QED  BY <1>2, <1>3, <1>4, <1>5, <1>6 DEF Next, Build

(* Every signed message holds exactly what its own caller asked for: the nonce *)
(* advanced first, the tip and the budget of its parameters, the creation of   *)
(* the account that the swap delivers to, one memo for each middleware that    *)
(* appends, and nothing at all once a middleware emptied the list - whichever  *)
(* task filled the caches or used the builder before, for chains of any length.*)
THEOREM OwnMessage == Spec => []MessageIsOwn
<1>1. Init => BytesInv /\ NonceInv /\ OwnInv /\ AcceptedInv
    BY BytesInit, NonceInit, OwnInit, AcceptedInit
<1>2. PoolInv /\ (BytesInv /\ NonceInv /\ OwnInv /\ AcceptedInv) /\ [Next]_vars
        => (BytesInv /\ NonceInv /\ OwnInv /\ AcceptedInv)'
    BY BytesStep, NonceStep, OwnStep, AcceptedStep
<1>3. OwnInv /\ AcceptedInv => MessageIsOwn
    <2> SUFFICES ASSUME OwnInv, AcceptedInv, NEW t \in Tasks, msg[t] # NoMessage
                 PROVE  msg[t].ins = Wanted(t)
        BY DEF MessageIsOwn
    <2> DEFINE asked == Asked(t, durable_nonce[t])
               memos == Appended(middlewares, Len(middlewares))
    <2>1. middlewares \in Seq({"log", "append", "clear", "fail"})
        BY ChainsAssumption DEF AcceptedInv
    <2>2. /\ Len(middlewares) \in Nat /\ DOMAIN middlewares = 1..Len(middlewares)
        BY <2>1
    <2>3. msg[t].ins = Processed(t) /\ Processed(t) # Failed
        BY DEF OwnInv, Stage, AcceptedInv
    <2>4. (\E S : asked \in Seq(S)) /\ Len(asked) >= 2
        BY AskedIsList, 0 \in Nat
    <2>5. AfterChain(middlewares, asked, Len(middlewares), Processed(t))
        BY <2>1, <2>4, ChainResult DEF Processed
    <2>6. CASE \E j \in 1..Len(middlewares) : middlewares[j] = "clear"
        <3>1. "clear" \in ToSet(middlewares)
            BY <2>2, <2>6 DEF ToSet
        <3>2. Processed(t) = << >>
            BY <2>3, <2>5, <2>6 DEF AfterChain
        <3> QED  BY <2>3, <3>1, <3>2 DEF Wanted
    <2>7. CASE \A j \in 1..Len(middlewares) : middlewares[j] # "clear"
        <3>1. "clear" \notin ToSet(middlewares)
            BY <2>2, <2>7 DEF ToSet
        <3>2. Processed(t) = asked \o Memos(memos)
            BY <2>3, <2>5, <2>7 DEF AfterChain
        <3>3. memos = Cardinality({j \in DOMAIN middlewares : middlewares[j] = "append"})
            BY <2>2 DEF Appended
        <3>4. memos \in Nat
            <4>1. IsFiniteSet({j \in DOMAIN middlewares : middlewares[j] = "append"})
                <5>1. IsFiniteSet(DOMAIN middlewares)
                    BY <2>2, FS_Interval
                <5> QED  BY <5>1, FS_Subset
            <4> QED  BY <3>3, <4>1, FS_CardinalityType
        <3> HIDE DEF memos
        <3>5. asked \o Memos(memos) = Wanted(t)
            BY <3>1, <3>3, <3>4, AskedIsList DEF Wanted, Memos
        <3> QED  BY <2>3, <3>2, <3>5
    <2> QED  BY <2>6, <2>7
<1> QED  BY <1>1, <1>2, <1>3, PoolInvariance, PTL DEF Spec
=============================================================================
