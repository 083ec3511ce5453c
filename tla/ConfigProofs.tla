---------------------------- MODULE ConfigProofs ----------------------------
(***************************************************************************)
(* Proofs about what the configuration of a client leads to.  FeeRaces and   *)
(* TaskPlan: for every set of writers, services, prices and tips, any number *)
(* of operations and any list of clients.  Startup: for every set of clients,   *)
(* every configuration and plan of how they start, any number of retries and *)
(* any rent.                                                                 *)
(***************************************************************************)
EXTENDS TaskPlan, Startup, Loops, FiniteSetTheorems, SequenceTheorems

-----------------------------------------------------------------------------
(* The operations a writer may be running.                                   *)
AllOps == GlobalOps \cup HighLowOps \cup NormalOps \cup SingleOps

(* An idle writer has nothing left to do, and the deletions that were counted *)
(* belong to the `set` call in progress.                                     *)
CallInv ==
    \A w \in Writers :
        /\ op[w] = Idle => calls[w] = << >> /\ todo[w] = {}
        /\ stage[w] # 0 => /\ calls[w] # << >>
                           /\ Head(calls[w]).call = "set"
                           /\ stage[w] <= Len(Excluded(Head(calls[w]).key[3]))

FeeInv == TypeOK /\ CallInv

(* What `set` deletes.                                                       *)
LEMMA ExcludedFacts ==
    /\ Len(Excluded("Normal")) = 2
    /\ Excluded("Normal")[1] = "HighTipLowCuPrice" /\ Excluded("Normal")[2] = "LowTipHighCuPrice"
    /\ \A y \in StrategyTypes \ {"Normal"} : Len(Excluded(y)) = 1 /\ Excluded(y)[1] = "Normal"
BY DEF Excluded, StrategyTypes

(* A key is its three parts.                                                 *)
LEMMA KeyParts ==
    /\ \A key \in Keys : /\ key[1] \in Swqos /\ key[2] \in Trades /\ key[3] \in StrategyTypes
                         /\ key = <<key[1], key[2], key[3]>>
    /\ \A k \in Swqos, trade \in Trades, y \in StrategyTypes : <<k, trade, y>> \in Keys
BY DEF Keys

(* The value a service is given by set_global_fee_strategy is a value.        *)
LEMMA GlobalValueTyped == ASSUME NEW k, NEW v \in Values PROVE GlobalValue(k, v) \in Values
BY TipsAssumption DEF GlobalValue, Values

(* The calls of an operation for one service.                                *)
LEMMA BodyTyped == ASSUME NEW k \in Swqos, NEW o \in AllOps PROVE Body(k, o) \in Seq(Calls)
<1>1. ASSUME NEW t \in Trades, NEW y \in StrategyTypes, NEW v \in Values
      PROVE  Set(k, t, y, v) \in Calls
    BY <1>1 DEF Set, Calls, Keys
<1>2. ASSUME NEW t \in Trades, NEW y \in StrategyTypes PROVE Del(k, t, y) \in Calls
    BY <1>2 DEF Del, Calls, Keys
<1>3. ASSUME NEW t \in Trades PROVE DelAll(k, t) \in Calls
    BY <1>3 DEF DelAll, Calls, Keys, StrategyTypes
<1>4. {"Buy", "Sell"} \subseteq Trades /\ {"Normal", "LowTipHighCuPrice", "HighTipLowCuPrice"} \subseteq StrategyTypes
    BY DEF Trades, StrategyTypes
<1>5. CASE o \in GlobalOps
    <2>1. o.name = "global" /\ o.v1 \in Values /\ o.v2 \in Values
        BY <1>5 DEF GlobalOps
    <2>2. Body(k, o) = Global(k, o)
        BY <2>1 DEF Body
    <2> QED  BY <1>1, <1>4, <2>1, <2>2, GlobalValueTyped DEF Global
<1>6. CASE o \in HighLowOps
    <2>1. o.name = "high_low" /\ o.trade \in Trades /\ o.v1 \in Values /\ o.v2 \in Values
        BY <1>6 DEF HighLowOps
    <2>2. Body(k, o) = HighLow(k, o)
        BY <2>1 DEF Body
    <2> QED  BY <1>1, <1>2, <1>4, <2>1, <2>2 DEF HighLow
<1>7. CASE o \in NormalOps
    <2>1. o.name = "normal" /\ o.v1 \in Values /\ o.v2 \in Values
        BY <1>7 DEF NormalOps
    <2>2. Body(k, o) = Normal(k, o)
        BY <2>1 DEF Body
    <2> QED  BY <1>1, <1>3, <1>4, <2>1, <2>2 DEF Normal
<1>8. CASE o \in SingleOps
    <2>1. CASE o \in [name : {"set"}, trade : Trades, y : StrategyTypes, v1 : Values]
        <3>1. Body(k, o) = <<Set(k, o.trade, o.y, o.v1)>>
            BY <2>1 DEF Body
        <3> QED  BY <1>1, <2>1, <3>1
    <2>2. CASE o \in [name : {"del"}, trade : Trades, y : StrategyTypes]
        <3>1. Body(k, o) = <<Del(k, o.trade, o.y)>>
            BY <2>2 DEF Body
        <3> QED  BY <1>2, <2>2, <3>1
    <2>3. CASE o \in [name : {"del_all"}, trade : Trades]
        <3>1. Body(k, o) = <<DelAll(k, o.trade)>>
            BY <2>3 DEF Body
        <3> QED  BY <1>3, <2>3, <3>1
    <2> QED  BY <1>8, <2>1, <2>2, <2>3 DEF SingleOps
<1> QED  BY <1>5, <1>6, <1>7, <1>8 DEF AllOps

(* Whatever rcu does to the table, it stays a table.                          *)
LEMMA TableTyped ==
    ASSUME strategies \in [Keys -> Values \cup {NoValue}]
    PROVE  /\ \A key \in Keys, v \in Values \cup {NoValue} :
                 Inserted(key, v) \in [Keys -> Values \cup {NoValue}]
           /\ \A key \in Keys : Removed(key) \in [Keys -> Values \cup {NoValue}]
           /\ \A k, trade : AllRemoved(k, trade) \in [Keys -> Values \cup {NoValue}]
           /\ \A trade \in Trades, x \in Tips : Updated(trade, "tip", x) \in [Keys -> Values \cup {NoValue}]
           /\ \A trade \in Trades, x \in Prices : Updated(trade, "cu_price", x) \in [Keys -> Values \cup {NoValue}]
<1>1. ASSUME NEW v \in Values, NEW x \in Tips PROVE [v EXCEPT !["tip"] = x] \in Values
    BY <1>1 DEF Values
<1>2. ASSUME NEW v \in Values, NEW x \in Prices PROVE [v EXCEPT !["cu_price"] = x] \in Values
    BY <1>2 DEF Values
<1> QED  BY <1>1, <1>2 DEF Inserted, Removed, AllRemoved, Updated

-----------------------------------------------------------------------------
(* At first the table is empty and all writers are idle.                     *)
LEMMA FeeInvInit == Init => FeeInv
BY MaxOpsAssumption DEF Init, FeeInv, TypeOK, CallInv

(* The operations with a loop begin by naming the services it visits.        *)
LEMMA BeginKinds ==
    ASSUME NEW w \in Writers,
           \/ SetGlobalFeeStrategy(w) \/ SetHighLowFeeStrategies(w) \/ SetHighLowFeeStrategy(w)
           \/ SetNormalFeeStrategies(w) \/ SetOrDelete(w)
    PROVE  \E o \in AllOps, K \in SUBSET Swqos :
              Begin(w, o, K) /\ o # Idle /\ (o.name = "global" => o \in GlobalOps /\ K = Swqos)
<1>1. CASE SetGlobalFeeStrategy(w)
    <2>1. PICK o \in GlobalOps : Begin(w, o, Swqos)
        BY <1>1 DEF SetGlobalFeeStrategy
    <2>2. o.name = "global"
        BY DEF GlobalOps
    <2>3. o # Idle
        BY <2>2 DEF Idle
    <2> QED  BY <2>1, <2>3 DEF AllOps
<1>2. CASE SetHighLowFeeStrategies(w) \/ SetHighLowFeeStrategy(w)
    <2>1. PICK o \in HighLowOps, K \in SUBSET Swqos : Begin(w, o, K)
        BY <1>2 DEF SetHighLowFeeStrategies, SetHighLowFeeStrategy
    <2>2. o.name = "high_low"
        BY DEF HighLowOps
    <2>3. o # Idle /\ o.name # "global"
        BY <2>2 DEF Idle
    <2> QED  BY <2>1, <2>3 DEF AllOps
<1>3. CASE SetNormalFeeStrategies(w)
    <2>1. PICK o \in NormalOps, K \in SUBSET Swqos : Begin(w, o, K)
        BY <1>3 DEF SetNormalFeeStrategies
    <2>2. o.name = "normal"
        BY DEF NormalOps
    <2>3. o # Idle /\ o.name # "global"
        BY <2>2 DEF Idle
    <2> QED  BY <2>1, <2>3 DEF AllOps
<1>4. CASE SetOrDelete(w)
    <2>1. PICK o \in SingleOps, k \in Swqos : Begin(w, o, {k})
        BY <1>4 DEF SetOrDelete
    <2>2. o.name \in {"set", "del", "del_all"}
        BY DEF SingleOps
    <2>3. o # Idle /\ o.name # "global" /\ {k} \in SUBSET Swqos
        BY <2>2 DEF Idle
    <2> QED  BY <2>1, <2>3 DEF AllOps
<1> QED  BY <1>1, <1>2, <1>3, <1>4

(* A writer's step on one call, by what it does to the table.                 *)
LEMMA CallKinds ==
    ASSUME FeeInv, NEW w \in Writers, Call(w)
    PROVE  LET c == Head(calls[w])
           IN  /\ calls[w] # << >> /\ c \in Calls /\ Tail(calls[w]) \in Seq(Calls)
               /\ \/ DelCall(w, c) \/ DelAllCall(w, c) \/ SetDelete(w, c) \/ SetInsert(w, c)
<1>1. calls[w] \in Seq(Calls) /\ calls[w] # << >>
    BY DEF FeeInv, TypeOK, Call
<1>2. Head(calls[w]) \in Calls /\ Tail(calls[w]) \in Seq(Calls)
    BY <1>1
<1> QED  BY <1>1, <1>2 DEF Call

(* The table and the writers keep their types, with any number of writers.    *)
LEMMA FeeInvStep == ASSUME FeeInv, [Next]_vars PROVE FeeInv'
<1>1. ASSUME NEW w \in Writers,
             \/ SetGlobalFeeStrategy(w) \/ SetHighLowFeeStrategies(w) \/ SetHighLowFeeStrategy(w)
             \/ SetNormalFeeStrategies(w) \/ SetOrDelete(w)
      PROVE  FeeInv'
    <2>1. PICK o \in AllOps, K \in SUBSET Swqos : Begin(w, o, K) /\ o # Idle
        BY <1>1, BeginKinds
    <2>2. /\ op[w] = Idle /\ ops[w] < MaxOps
          /\ op' = [op EXCEPT ![w] = o]
          /\ todo' = [todo EXCEPT ![w] = K]
          /\ ops' = [ops EXCEPT ![w] = @ + 1]
          /\ UNCHANGED <<strategies, calls, stage>>
        BY <2>1 DEF Begin, CanStart
    <2>3. ops[w] + 1 \in 0..MaxOps
        BY <2>2, MaxOpsAssumption DEF FeeInv, TypeOK
    <2>4. TypeOK'
        BY <2>2, <2>3 DEF FeeInv, TypeOK, AllOps
    <2>5. CallInv'
        <3>1. /\ op'[w] # Idle
              /\ \A v \in Writers : v # w => op'[v] = op[v] /\ todo'[v] = todo[v]
            BY <2>1, <2>2 DEF FeeInv, TypeOK
        <3> QED  BY <2>2, <3>1 DEF FeeInv, CallInv
    <2> QED  BY <2>4, <2>5 DEF FeeInv
<1>2. ASSUME NEW w \in Writers, Clear(w) \/ UpdateTip(w) \/ UpdateCuPrice(w) PROVE FeeInv'
    <2>1. strategies' \in [Keys -> Values \cup {NoValue}]
        <3>1. strategies \in [Keys -> Values \cup {NoValue}]
            BY DEF FeeInv, TypeOK
        <3>2. CASE Clear(w)
            BY <3>2 DEF Clear, Atomically
        <3>3. CASE UpdateTip(w)
            BY <3>1, <3>3, TableTyped DEF UpdateTip, Atomically
        <3>4. CASE UpdateCuPrice(w)
            BY <3>1, <3>4, TableTyped DEF UpdateCuPrice, Atomically
        <3> QED  BY <1>2, <3>2, <3>3, <3>4
    <2>2. /\ ops[w] < MaxOps
          /\ ops' = [ops EXCEPT ![w] = @ + 1]
          /\ UNCHANGED <<op, todo, calls, stage>>
        BY <1>2 DEF Clear, UpdateTip, UpdateCuPrice, Atomically, CanStart
    <2>3. ops[w] + 1 \in 0..MaxOps
        BY <2>2, MaxOpsAssumption DEF FeeInv, TypeOK
    <2> QED  BY <2>1, <2>2, <2>3 DEF FeeInv, TypeOK, CallInv
<1>3. ASSUME NEW w \in Writers, Visit(w) PROVE FeeInv'
    <2>1. PICK k \in todo[w] :
             /\ todo' = [todo EXCEPT ![w] = @ \ {k}]
             /\ calls' = [calls EXCEPT ![w] = Body(k, op[w])]
        BY <1>3 DEF Visit
    <2>2. calls[w] = << >> /\ UNCHANGED <<strategies, op, stage, ops>>
        BY <1>3 DEF Visit
    <2>3. k \in Swqos /\ op[w] # Idle
        BY <2>1 DEF FeeInv, TypeOK, CallInv
    <2>4. op[w] \in AllOps
        BY <2>3 DEF FeeInv, TypeOK, AllOps
    <2>5. Body(k, op[w]) \in Seq(Calls)
        BY <2>3, <2>4, BodyTyped
    <2>6. stage[w] = 0
        BY <2>2 DEF FeeInv, CallInv
    <2>7. TypeOK'
        BY <2>1, <2>2, <2>5 DEF FeeInv, TypeOK
    <2>8. CallInv'
        <3> SUFFICES ASSUME NEW v \in Writers
                     PROVE  /\ op'[v] = Idle => calls'[v] = << >> /\ todo'[v] = {}
                            /\ stage'[v] # 0 => /\ calls'[v] # << >>
                                                /\ Head(calls'[v]).call = "set"
                                                /\ stage'[v] <= Len(Excluded(Head(calls'[v]).key[3]))
            BY DEF CallInv
        <3>1. CASE v = w
            BY <2>2, <2>3, <2>6, <3>1
        <3>2. CASE v # w
            <4>1. calls'[v] = calls[v] /\ todo'[v] = todo[v]
                BY <2>1, <3>2 DEF FeeInv, TypeOK
            <4> QED  BY <2>2, <4>1 DEF FeeInv, CallInv
        <3> QED  BY <3>1, <3>2
    <2> QED  BY <2>7, <2>8 DEF FeeInv
<1>4. ASSUME NEW w \in Writers, Finish(w) PROVE FeeInv'
    <2>1. /\ calls[w] = << >> /\ todo[w] = {}
          /\ op' = [op EXCEPT ![w] = Idle]
          /\ UNCHANGED <<strategies, todo, calls, stage, ops>>
        BY <1>4 DEF Finish
    <2> QED  BY <2>1 DEF FeeInv, TypeOK, CallInv
<1>5. ASSUME NEW w \in Writers, Call(w) PROVE FeeInv'
    <2> DEFINE c == Head(calls[w])
    <2>1. /\ calls[w] # << >> /\ c \in Calls /\ Tail(calls[w]) \in Seq(Calls)
          /\ DelCall(w, c) \/ DelAllCall(w, c) \/ SetDelete(w, c) \/ SetInsert(w, c)
        BY <1>5, CallKinds
    <2> HIDE DEF c
    <2>2. /\ c.key \in Keys /\ c.value \in Values \cup {NoValue}
          /\ c.key[1] \in Swqos /\ c.key[2] \in Trades /\ c.key[3] \in StrategyTypes
        BY <2>1, KeyParts DEF Calls
    <2>3. op[w] # Idle
        BY <2>1 DEF FeeInv, CallInv
    <2>4. CASE DelCall(w, c) \/ DelAllCall(w, c) \/ SetInsert(w, c)
        <3>1. strategies' \in [Keys -> Values \cup {NoValue}]
            BY <2>2, <2>4, TableTyped DEF FeeInv, TypeOK, DelCall, DelAllCall, SetInsert
        <3>2. /\ calls' = [calls EXCEPT ![w] = Tail(calls[w])]
              /\ stage' = [stage EXCEPT ![w] = 0]
              /\ UNCHANGED <<op, todo, ops>>
            BY <2>4 DEF DelCall, DelAllCall, SetInsert, Returned
        <3>3. TypeOK'
            BY <2>1, <3>1, <3>2 DEF FeeInv, TypeOK
        <3>4. CallInv'
            BY <2>3, <3>2 DEF FeeInv, TypeOK, CallInv
        <3> QED  BY <3>3, <3>4 DEF FeeInv
    <2>5. CASE SetDelete(w, c)
        <3> DEFINE n == Len(Excluded(c.key[3]))
                   y == Excluded(c.key[3])[stage[w] + 1]
        <3>1. /\ c.call = "set" /\ stage[w] < n
              /\ strategies' = Removed(<<c.key[1], c.key[2], y>>)
              /\ stage' = [stage EXCEPT ![w] = stage[w] + 1]
              /\ UNCHANGED <<op, todo, calls, ops>>
            BY <2>5 DEF SetDelete
        <3>2. n \in {1, 2} /\ stage[w] \in {0, 1, 2}
            BY <2>2, ExcludedFacts DEF FeeInv, TypeOK
        <3>3. y \in StrategyTypes
            BY <2>2, <3>1, <3>2, ExcludedFacts DEF StrategyTypes
        <3>4. strategies' \in [Keys -> Values \cup {NoValue}]
            BY <2>2, <3>1, <3>3, KeyParts, TableTyped DEF FeeInv, TypeOK
        <3>5. stage[w] + 1 \in 0..2 /\ stage[w] + 1 <= n
            BY <3>1, <3>2
        <3> HIDE DEF n, y
        <3>6. TypeOK'
            BY <3>1, <3>4, <3>5 DEF FeeInv, TypeOK
        <3>7. CallInv'
            <4>1. /\ \A v \in Writers : v # w => stage'[v] = stage[v]
                  /\ stage'[w] = stage[w] + 1
                BY <3>1 DEF FeeInv, TypeOK
            <4> QED  BY <2>1, <3>1, <3>5, <4>1 DEF FeeInv, CallInv, n, c
        <3> QED  BY <3>6, <3>7 DEF FeeInv
    <2> QED  BY <2>1, <2>4, <2>5
<1>6. CASE UNCHANGED vars
    BY <1>6 DEF FeeInv, TypeOK, CallInv, vars, writerVars
<1> QED  BY <1>1, <1>2, <1>3, <1>4, <1>5, <1>6 DEF Next, Write

(* The fee table keeps its type under any number of writers.                 *)
THEOREM FeeInvariance == Spec => []FeeInv
BY FeeInvInit, FeeInvStep, PTL DEF Spec

-----------------------------------------------------------------------------
(* The table and the history, under any number of writers.                    *)
HistoryInv ==
    /\ FeeInv
    /\ touched \in [Writers -> SUBSET (Swqos \X Trades)]
    /\ raced \subseteq Swqos \X Trades

(* A writer's step leaves what the other writers are at alone.                *)
LEMMA OthersKeep ==
    ASSUME HistoryInv, NEW w \in Writers, Write(w), NEW v \in Writers, v # w
    PROVE  op'[v] = op[v] /\ todo'[v] = todo[v] /\ calls'[v] = calls[v] /\ stage'[v] = stage[v]
<1>1. /\ DOMAIN op = Writers /\ DOMAIN todo = Writers /\ DOMAIN calls = Writers
      /\ DOMAIN stage = Writers
    BY DEF HistoryInv, FeeInv, TypeOK
<1>2. CASE \/ SetGlobalFeeStrategy(w) \/ SetHighLowFeeStrategies(w) \/ SetHighLowFeeStrategy(w)
           \/ SetNormalFeeStrategies(w) \/ SetOrDelete(w)
    <2>1. \E o \in AllOps, K \in SUBSET Swqos : Begin(w, o, K)
        BY <1>2, BeginKinds
    <2> QED  BY <1>1, <2>1 DEF Begin
<1>3. CASE Clear(w) \/ UpdateTip(w) \/ UpdateCuPrice(w)
    BY <1>3 DEF Clear, UpdateTip, UpdateCuPrice, Atomically
<1>4. CASE Visit(w)
    BY <1>1, <1>4 DEF Visit
<1>5. CASE Finish(w)
    BY <1>1, <1>5 DEF Finish
<1>6. CASE Call(w)
    BY <1>1, <1>6 DEF Call, DelCall, DelAllCall, SetDelete, SetInsert, Returned
<1> QED  BY <1>2, <1>3, <1>4, <1>5, <1>6 DEF Write

(* What a running writer has not been told of has not changed.                *)
LEMMA Untouched ==
    ASSUME HistoryInv, NEW w \in Writers, Write(w), Watch(w), NEW v \in Writers, v # w, op[v] # Idle,
           NEW k \in Swqos, NEW trade \in Trades, <<k, trade>> \notin touched'[v]
    PROVE  /\ <<k, trade>> \notin touched[v]
           /\ \A y \in StrategyTypes : strategies'[<<k, trade, y>>] = strategies[<<k, trade, y>>]
<1>1. op'[v] # Idle
    BY OthersKeep
<1>2. touched'[v] = touched[v] \cup Changed
    BY <1>1 DEF Watch
<1>3. <<k, trade>> \notin Changed
    BY <1>2
<1> QED  BY <1>2, <1>3 DEF Changed

(* A running writer's own steps add nothing to its history.                   *)
LEMMA OwnStep ==
    ASSUME NEW w \in Writers, Watch(w), op[w] # Idle, op'[w] # Idle
    PROVE  touched'[w] = touched[w]
BY DEF Watch

(* The history keeps its type.                                               *)
LEMMA HistoryStep ==
    ASSUME HistoryInv, [RaceNext]_raceVars PROVE HistoryInv'
<1>1. FeeInv'
    BY FeeInvStep DEF HistoryInv, RaceNext, Next, raceVars
<1>2. CASE UNCHANGED raceVars
    BY <1>1, <1>2 DEF HistoryInv, raceVars
<1>3. ASSUME NEW w \in Writers, Watch(w) PROVE HistoryInv'
    <2>1. Changed \subseteq Swqos \X Trades /\ Gained \subseteq Swqos \X Trades
        BY DEF Changed, Gained
    <2>2. raced' \subseteq Swqos \X Trades
        BY <1>3, <2>1 DEF Watch, HistoryInv
    <2>3. touched' \in [Writers -> SUBSET (Swqos \X Trades)]
        <3>1. \A v \in Writers : touched[v] \subseteq Swqos \X Trades
            BY DEF HistoryInv
        <3> QED  BY <1>3, <2>1, <3>1 DEF Watch
    <2> QED  BY <1>1, <2>2, <2>3 DEF HistoryInv
<1> QED  BY <1>2, <1>3 DEF RaceNext

-----------------------------------------------------------------------------
(* What the `set` call in progress has deleted is still absent, unless        *)
(* another writer came in between.                                           *)
ClearedBy(w) ==
    stage[w] # 0 =>
        \/ <<Head(calls[w]).key[1], Head(calls[w]).key[2]>> \in touched[w]
        \/ \A j \in 1..stage[w] :
               strategies[<<Head(calls[w]).key[1], Head(calls[w]).key[2],
                            Excluded(Head(calls[w]).key[3])[j]>>] = NoValue

Cleared == \A w \in Writers : ClearedBy(w)

(* A step that inserts nothing makes no conflict.                            *)
LEMMA NoNewEntry ==
    ASSUME ConflictsAreRaces, raced \subseteq raced',
           \A key \in Keys : strategies'[key] # NoValue => strategies[key] # NoValue
    PROVE  ConflictsAreRaces'
<1>1. \A k \in Swqos, trade \in Trades, y \in StrategyTypes : Present(k, trade, y)' => Present(k, trade, y)
    BY KeyParts DEF Present
<1>2. {"Normal", "LowTipHighCuPrice", "HighTipLowCuPrice"} \subseteq StrategyTypes
    BY DEF StrategyTypes
<1> QED  BY <1>1, <1>2 DEF ConflictsAreRaces, Conflict

(* The strategies `set` deletes are strategies.                              *)
LEMMA ExcludedTyped ==
    ASSUME NEW y \in StrategyTypes
    PROVE  /\ Len(Excluded(y)) \in {1, 2}
           /\ \A j \in 1..Len(Excluded(y)) : Excluded(y)[j] \in StrategyTypes
<1>1. \/ /\ Len(Excluded(y)) = 2
         /\ Excluded(y)[1] \in StrategyTypes /\ Excluded(y)[2] \in StrategyTypes
      \/ Len(Excluded(y)) = 1 /\ Excluded(y)[1] \in StrategyTypes
    BY ExcludedFacts DEF StrategyTypes
<1> QED  BY <1>1

(* Another writer's step does not bring back what a `set` has deleted without *)
(* that `set` being told.                                                    *)
LEMMA ClearedOthers ==
    ASSUME HistoryInv, NEW w \in Writers, Write(w), Watch(w),
           NEW v \in Writers, v # w, ClearedBy(v)
    PROVE  ClearedBy(v)'
<1> DEFINE k == Head(calls[v]).key[1]
           trade == Head(calls[v]).key[2]
           e == Excluded(Head(calls[v]).key[3])
<1>1. calls'[v] = calls[v] /\ stage'[v] = stage[v]
    BY OthersKeep
<1>2. SUFFICES ASSUME stage[v] # 0, <<k, trade>> \notin touched'[v]
               PROVE  \A j \in 1..stage[v] : strategies'[<<k, trade, e[j]>>] = NoValue
    BY <1>1 DEF ClearedBy
<1>3. calls[v] # << >> /\ stage[v] <= Len(e) /\ op[v] # Idle /\ stage[v] \in {1, 2}
    BY <1>2 DEF HistoryInv, FeeInv, CallInv, TypeOK
<1>4. Head(calls[v]) \in Calls
    BY <1>3 DEF HistoryInv, FeeInv, TypeOK
<1>5. k \in Swqos /\ trade \in Trades /\ Head(calls[v]).key[3] \in StrategyTypes
    BY <1>4, KeyParts DEF Calls
<1>6. \A j \in 1..stage[v] : e[j] \in StrategyTypes
    BY <1>3, <1>5, ExcludedTyped
<1> HIDE DEF k, trade, e
<1>7. /\ <<k, trade>> \notin touched[v]
      /\ \A y \in StrategyTypes : strategies'[<<k, trade, y>>] = strategies[<<k, trade, y>>]
    BY <1>2, <1>3, <1>5, Untouched
<1>8. \A j \in 1..stage[v] : strategies[<<k, trade, e[j]>>] = NoValue
    BY <1>2, <1>7 DEF ClearedBy, k, trade, e
<1> QED  BY <1>6, <1>7, <1>8

(* The insertion of a `set`: both modes are there afterwards only if they     *)
(* were before, or if another writer came in between.                        *)
LEMMA InsertStep ==
    ASSUME HistoryInv, ConflictsAreRaces, NEW w \in Writers, Watch(w), ClearedBy(w), op[w] # Idle,
           NEW c \in Calls, c = Head(calls[w]), SetInsert(w, c)
    PROVE  ConflictsAreRaces'
<1>1. /\ strategies' = [strategies EXCEPT ![c.key] = c.value]
      /\ stage[w] = Len(Excluded(c.key[3]))
    BY DEF SetInsert, Inserted
<1>2. /\ c.key \in Keys /\ c.key = <<c.key[1], c.key[2], c.key[3]>>
      /\ c.key[1] \in Swqos /\ c.key[2] \in Trades /\ c.key[3] \in StrategyTypes
    BY KeyParts DEF Calls
<1>3. \A key \in Keys : key # c.key => strategies'[key] = strategies[key]
    BY <1>1 DEF HistoryInv, FeeInv, TypeOK
<1>4. raced' = raced \cup (touched[w] \cap Gained)
    BY DEF Watch
<1>5. SUFFICES ASSUME NEW k \in Swqos, NEW trade \in Trades, Conflict(k, trade)', ~Conflict(k, trade)
               PROVE  <<k, trade>> \in touched[w] \cap Gained
    BY <1>4 DEF ConflictsAreRaces
<1>6. /\ <<k, trade, "Normal">> \in Keys /\ <<k, trade, "LowTipHighCuPrice">> \in Keys
      /\ <<k, trade, "HighTipLowCuPrice">> \in Keys
    BY KeyParts DEF StrategyTypes
<1>7. k = c.key[1] /\ trade = c.key[2]
    <2> SUFFICES ASSUME k # c.key[1] \/ trade # c.key[2] PROVE FALSE
        OBVIOUS
    <2>1. \A y : <<k, trade, y>> # c.key
        BY <1>2
    <2> QED  BY <1>3, <1>5, <1>6, <2>1 DEF Conflict, Present
<1>8. strategies[c.key] = NoValue /\ strategies'[c.key] # NoValue
    BY <1>2, <1>3, <1>5, <1>6 DEF Conflict, Present
<1>9. <<k, trade>> \in Gained
    <2>1. <<k, trade>> \in Changed
        BY <1>2, <1>7, <1>8 DEF Changed
    <2> QED  BY <1>2, <1>7, <1>8, <2>1 DEF Gained, Present
<1>10. <<k, trade>> \in touched[w]
    <2> SUFFICES ASSUME <<k, trade>> \notin touched[w] PROVE FALSE
        OBVIOUS
    <2>1. stage[w] # 0 =>
            \A j \in 1..stage[w] : strategies[<<k, trade, Excluded(c.key[3])[j]>>] = NoValue
        BY <1>7 DEF ClearedBy
    <2>2. CASE c.key[3] = "Normal"
        <3>1. stage[w] = 2 /\ 1 \in 1..2 /\ 2 \in 1..2
            BY <1>1, <2>2, ExcludedFacts
        <3>2. /\ strategies[<<k, trade, "HighTipLowCuPrice">>] = NoValue
              /\ strategies[<<k, trade, "LowTipHighCuPrice">>] = NoValue
            BY <2>1, <2>2, <3>1, ExcludedFacts
        <3>3. <<k, trade, "HighTipLowCuPrice">> # c.key /\ <<k, trade, "LowTipHighCuPrice">> # c.key
            BY <1>2, <2>2
        <3> QED  BY <1>3, <1>5, <1>6, <3>2, <3>3 DEF Conflict, Present
    <2>3. CASE c.key[3] # "Normal"
        <3>1. stage[w] = 1 /\ Excluded(c.key[3])[1] = "Normal" /\ 1 \in 1..1
            BY <1>1, <1>2, <2>3, ExcludedFacts
        <3>2. strategies[<<k, trade, "Normal">>] = NoValue
            BY <2>1, <3>1
        <3>3. <<k, trade, "Normal">> # c.key
            BY <1>2, <2>3
        <3> QED  BY <1>3, <1>5, <1>6, <3>2, <3>3 DEF Conflict, Present
    <2> QED  BY <2>2, <2>3
<1> QED  BY <1>9, <1>10

(* Every step of every writer.                                               *)
LEMMA ExclusionStep ==
    ASSUME HistoryInv, ConflictsAreRaces, Cleared, [RaceNext]_raceVars
    PROVE  ConflictsAreRaces' /\ Cleared'
<1>1. CASE UNCHANGED raceVars
    BY <1>1 DEF ConflictsAreRaces, Conflict, Present, Cleared, ClearedBy, raceVars, vars, writerVars
<1>2. SUFFICES ASSUME NEW w \in Writers, Write(w), Watch(w)
               PROVE  ConflictsAreRaces' /\ ClearedBy(w)'
    BY <1>1, ClearedOthers DEF RaceNext, Cleared
<1>3. raced \subseteq raced' /\ DOMAIN strategies = Keys /\ DOMAIN stage = Writers
    BY <1>2 DEF Watch, HistoryInv, FeeInv, TypeOK
<1>4. CASE \/ SetGlobalFeeStrategy(w) \/ SetHighLowFeeStrategies(w) \/ SetHighLowFeeStrategy(w)
           \/ SetNormalFeeStrategies(w) \/ SetOrDelete(w) \/ Finish(w) \/ Visit(w)
    <2>1. UNCHANGED <<strategies, stage>>
        BY <1>4 DEF SetGlobalFeeStrategy, SetHighLowFeeStrategies, SetHighLowFeeStrategy,
           SetNormalFeeStrategies, SetOrDelete, Begin, Finish, Visit
    <2>2. calls[w] = << >>
        <3>1. Visit(w) \/ Finish(w) \/ op[w] = Idle
            BY <1>4 DEF SetGlobalFeeStrategy, SetHighLowFeeStrategies, SetHighLowFeeStrategy,
               SetNormalFeeStrategies, SetOrDelete, Begin, CanStart
        <3> QED  BY <3>1 DEF Visit, Finish, HistoryInv, FeeInv, CallInv
    <2>3. stage'[w] = 0
        BY <2>1, <2>2 DEF HistoryInv, FeeInv, CallInv
    <2> QED  BY <1>3, <2>1, <2>3, NoNewEntry DEF ClearedBy
<1>5. CASE Clear(w) \/ UpdateTip(w) \/ UpdateCuPrice(w)
    <2>1. op[w] = Idle /\ UNCHANGED stage
        BY <1>5 DEF Clear, UpdateTip, UpdateCuPrice, Atomically, CanStart
    <2>2. stage'[w] = 0
        BY <2>1 DEF HistoryInv, FeeInv, CallInv
    <2>3. \A key \in Keys : strategies'[key] # NoValue => strategies[key] # NoValue
        BY <1>5 DEF Clear, UpdateTip, UpdateCuPrice, Atomically, Updated
    <2> QED  BY <1>3, <2>2, <2>3, NoNewEntry DEF ClearedBy
<1>6. CASE Call(w)
    <2> DEFINE c == Head(calls[w])
    <2>1. /\ calls[w] # << >> /\ c \in Calls
          /\ DelCall(w, c) \/ DelAllCall(w, c) \/ SetDelete(w, c) \/ SetInsert(w, c)
        BY <1>6, CallKinds DEF HistoryInv
    <2>2. op[w] # Idle /\ ClearedBy(w) /\ stage[w] \in {0, 1, 2}
        BY <2>1 DEF HistoryInv, FeeInv, CallInv, Cleared, TypeOK
    <2>3. c = Head(calls[w])
        OBVIOUS
    <2> HIDE DEF c
    <2>4. /\ c.key \in Keys /\ c.key = <<c.key[1], c.key[2], c.key[3]>>
          /\ c.key[1] \in Swqos /\ c.key[2] \in Trades /\ c.key[3] \in StrategyTypes
        BY <2>1, KeyParts DEF Calls
    <2>5. CASE DelCall(w, c) \/ DelAllCall(w, c)
        <3>1. stage'[w] = 0
            BY <1>3, <2>5 DEF DelCall, DelAllCall, Returned
        <3>2. \A key \in Keys : strategies'[key] # NoValue => strategies[key] # NoValue
            BY <1>3, <2>5 DEF DelCall, DelAllCall, Removed, AllRemoved
        <3> QED  BY <1>3, <3>1, <3>2, NoNewEntry DEF ClearedBy
    <2>6. CASE SetDelete(w, c)
        <3> DEFINE y == Excluded(c.key[3])[stage[w] + 1]
        <3>1. /\ strategies' = [strategies EXCEPT ![<<c.key[1], c.key[2], y>>] = NoValue]
              /\ stage'[w] = stage[w] + 1
              /\ stage[w] < Len(Excluded(c.key[3]))
              /\ UNCHANGED <<op, calls>>
            BY <1>3, <2>6 DEF SetDelete, Removed
        <3>2. \A key \in Keys : strategies'[key] # NoValue => strategies[key] # NoValue
            BY <1>3, <3>1
        <3>3. touched'[w] = touched[w]
            BY <1>2, <2>2, <3>1, OwnStep
        <3>4. ASSUME <<c.key[1], c.key[2]>> \notin touched[w], NEW j \in 1..(stage[w] + 1)
              PROVE  strategies'[<<c.key[1], c.key[2], Excluded(c.key[3])[j]>>] = NoValue
            <4>1. j \in 1..Len(Excluded(c.key[3]))
                BY <2>2, <2>4, <3>1, ExcludedTyped
            <4>2. <<c.key[1], c.key[2], Excluded(c.key[3])[j]>> \in Keys
                BY <2>4, <4>1, ExcludedTyped, KeyParts
            <4>3. CASE j = stage[w] + 1
                BY <1>3, <3>1, <4>2, <4>3
            <4>4. CASE j # stage[w] + 1
                <5>1. j \in 1..stage[w] /\ stage[w] # 0
                    BY <2>2, <4>4
                <5>2. strategies[<<c.key[1], c.key[2], Excluded(c.key[3])[j]>>] = NoValue
                    BY <2>2, <2>3, <3>4, <5>1 DEF ClearedBy
                <5> QED  BY <3>2, <4>2, <5>2
            <4> QED  BY <4>3, <4>4
        <3>5. ClearedBy(w)'
            BY <2>3, <3>1, <3>3, <3>4 DEF ClearedBy
        <3> QED  BY <1>3, <3>2, <3>5, NoNewEntry
    <2>7. CASE SetInsert(w, c)
        <3>1. stage'[w] = 0
            BY <1>3, <2>7 DEF SetInsert, Returned
        <3>2. ConflictsAreRaces'
            BY <1>2, <2>1, <2>2, <2>3, <2>7, InsertStep
        <3> QED  BY <3>1, <3>2 DEF ClearedBy
    <2> QED  BY <2>1, <2>5, <2>6, <2>7
<1> QED  BY <1>2, <1>4, <1>5, <1>6 DEF Write

(* A service has one entry for the trade, Normal, with the value v.           *)
Exact(k, trade, v) ==
    /\ strategies[<<k, trade, "Normal">>] = v
    /\ strategies[<<k, trade, "LowTipHighCuPrice">>] = NoValue
    /\ strategies[<<k, trade, "HighTipLowCuPrice">>] = NoValue

(* set_global_fee_strategy half way through a service.                       *)
SellHalf(k, o) == <<Set(k, "Sell", "Normal", GlobalValue(k, o.v2))>>

(* The same, unless another writer has changed it while w's operation ran.    *)
Held(w, k, trade, v) == <<k, trade>> \in touched[w] \/ Exact(k, trade, v)

(* While set_global_fee_strategy runs: the services its loop has left behind  *)
(* have their two entries, but for the one that it is at.                    *)
GlobalBy(w) ==
    op[w].name = "global" =>
        /\ \/ calls[w] = << >>
           \/ \E k \in Swqos \ todo[w] : calls[w] = Global(k, op[w]) \/ calls[w] = SellHalf(k, op[w])
        /\ \A k \in Swqos \ todo[w] :
              /\ calls[w] = Global(k, op[w]) \/ Held(w, k, "Buy", GlobalValue(k, op[w].v1))
              /\ \/ calls[w] = Global(k, op[w]) \/ calls[w] = SellHalf(k, op[w])
                 \/ Held(w, k, "Sell", GlobalValue(k, op[w].v2))

GlobalInv == \A w \in Writers : GlobalBy(w)

(* The two calls for a service, and that they name it.                       *)
LEMMA GlobalCalls ==
    ASSUME NEW k, NEW o
    PROVE  /\ Global(k, o) # << >> /\ SellHalf(k, o) # << >>
           /\ Head(Global(k, o)) = Set(k, "Buy", "Normal", GlobalValue(k, o.v1))
           /\ Tail(Global(k, o)) = SellHalf(k, o)
           /\ Head(SellHalf(k, o)) = Set(k, "Sell", "Normal", GlobalValue(k, o.v2))
           /\ Tail(SellHalf(k, o)) = << >>
BY DEF Global, SellHalf

(* Entries that w did not write since nobody else did are still held.         *)
LEMMA HeldSame ==
    ASSUME NEW w \in Writers, UNCHANGED strategies, touched'[w] = touched[w],
           NEW k, NEW trade, NEW v, Held(w, k, trade, v)
    PROVE  Held(w, k, trade, v)'
BY DEF Held, Exact

(* One `set` of a Normal entry, deletion by deletion.                        *)
LEMMA SetNormalEntry ==
    ASSUME HistoryInv, NEW w \in Writers, ClearedBy(w), Watch(w), op[w] # Idle,
           NEW k \in Swqos, NEW trade \in Trades, NEW v,
           Head(calls[w]) = Set(k, trade, "Normal", v), Call(w)
    PROVE  /\ \A l \in Swqos, tr \in Trades : l # k \/ tr # trade =>
                 \A x : Held(w, l, tr, x) => Held(w, l, tr, x)'
           /\ UNCHANGED <<op, todo>>
           /\ \/ UNCHANGED calls
              \/ calls' = [calls EXCEPT ![w] = Tail(calls[w])] /\ Held(w, k, trade, v)'
<1> DEFINE c == Head(calls[w])
<1>1. SetDelete(w, c) \/ SetInsert(w, c)
    BY CallKinds DEF Set, DelCall, DelAllCall, HistoryInv
<1>2. c.call = "set" /\ c.key = <<k, trade, "Normal">> /\ c.value = v
    BY DEF Set
<1>3. c.key[1] = k /\ c.key[2] = trade /\ c.key[3] = "Normal"
    BY <1>2
<1>4. DOMAIN strategies = Keys /\ stage[w] \in {0, 1, 2}
    BY DEF HistoryInv, FeeInv, TypeOK
<1>5. stage[w] # 0 /\ <<k, trade>> \notin touched[w] =>
        \A j \in 1..stage[w] : strategies[<<k, trade, Excluded("Normal")[j]>>] = NoValue
    BY <1>3 DEF ClearedBy
<1>0. UNCHANGED op
    BY <1>1 DEF SetDelete, SetInsert, Returned
<1>9. touched'[w] = touched[w]
    BY <1>0, OwnStep
<1> HIDE DEF c
<1>6. \A l \in Swqos, tr \in Trades :
        /\ <<l, tr, "Normal">> \in Keys /\ <<l, tr, "LowTipHighCuPrice">> \in Keys
        /\ <<l, tr, "HighTipLowCuPrice">> \in Keys
    BY KeyParts DEF StrategyTypes
<1>7. CASE SetDelete(w, c)
    <2>1. /\ UNCHANGED <<op, todo, calls>>
          /\ \E y : strategies' = [strategies EXCEPT ![<<k, trade, y>>] = NoValue]
        BY <1>3, <1>7 DEF SetDelete, Removed
    <2>2. ASSUME NEW l \in Swqos, NEW tr \in Trades, NEW x, l # k \/ tr # trade, Exact(l, tr, x)
          PROVE  Exact(l, tr, x)'
        BY <1>4, <1>6, <2>1, <2>2 DEF Exact
    <2> QED  BY <1>9, <2>1, <2>2 DEF Held
<1>8. CASE SetInsert(w, c)
    <2>1. /\ UNCHANGED <<op, todo>>
          /\ calls' = [calls EXCEPT ![w] = Tail(calls[w])]
          /\ strategies' = [strategies EXCEPT ![<<k, trade, "Normal">>] = v]
          /\ stage[w] = Len(Excluded("Normal"))
        BY <1>2, <1>3, <1>8 DEF SetInsert, Inserted, Returned
    <2>2. ASSUME NEW l \in Swqos, NEW tr \in Trades, NEW x, l # k \/ tr # trade, Exact(l, tr, x)
          PROVE  Exact(l, tr, x)'
        BY <1>4, <1>6, <2>1, <2>2 DEF Exact
    <2>3. stage[w] = 2 /\ 1 \in 1..2 /\ 2 \in 1..2
        BY <2>1, ExcludedFacts
    <2>4. ASSUME <<k, trade>> \notin touched[w] PROVE Exact(k, trade, v)'
        <3>1. /\ strategies[<<k, trade, "HighTipLowCuPrice">>] = NoValue
              /\ strategies[<<k, trade, "LowTipHighCuPrice">>] = NoValue
            BY <1>5, <2>3, <2>4, ExcludedFacts
        <3> QED  BY <1>4, <1>6, <2>1, <3>1 DEF Exact
    <2>5. Held(w, k, trade, v)'
        BY <1>9, <2>4 DEF Held
    <2> QED  BY <1>9, <2>1, <2>2, <2>5 DEF Held
<1> QED  BY <1>1, <1>7, <1>8

(* Another writer's step takes nothing from what is held without telling.     *)
LEMMA GlobalOthers ==
    ASSUME HistoryInv, NEW w \in Writers, Write(w), Watch(w),
           NEW v \in Writers, v # w, GlobalBy(v)
    PROVE  GlobalBy(v)'
<1>1. op'[v] = op[v] /\ todo'[v] = todo[v] /\ calls'[v] = calls[v]
    BY OthersKeep
<1>2. SUFFICES ASSUME op[v].name = "global" PROVE GlobalBy(v)'
    BY <1>1 DEF GlobalBy
<1>3. op[v] # Idle /\ todo[v] \subseteq Swqos
    BY <1>2 DEF Idle, HistoryInv, FeeInv, TypeOK
<1>4. ASSUME NEW k \in Swqos, NEW trade \in Trades, NEW x, Held(v, k, trade, x)
      PROVE  Held(v, k, trade, x)'
    <2>1. SUFFICES ASSUME <<k, trade>> \notin touched'[v] PROVE Exact(k, trade, x)'
        BY DEF Held
    <2>2. /\ <<k, trade>> \notin touched[v]
          /\ \A y \in StrategyTypes : strategies'[<<k, trade, y>>] = strategies[<<k, trade, y>>]
        BY <1>3, <2>1, Untouched
    <2>3. Exact(k, trade, x)
        BY <1>4, <2>2 DEF Held
    <2> QED  BY <2>2, <2>3 DEF Exact, StrategyTypes
<1>5. "Buy" \in Trades /\ "Sell" \in Trades
    BY DEF Trades
<1>6. \A k \in Swqos \ todo[v] :
         /\ calls[v] = Global(k, op[v]) \/ Held(v, k, "Buy", GlobalValue(k, op[v].v1))'
         /\ \/ calls[v] = Global(k, op[v]) \/ calls[v] = SellHalf(k, op[v])
            \/ Held(v, k, "Sell", GlobalValue(k, op[v].v2))'
    <2> DEFINE b(k) == GlobalValue(k, op[v].v1)
               s(k) == GlobalValue(k, op[v].v2)
    <2>1. \A k \in Swqos \ todo[v] :
             /\ calls[v] = Global(k, op[v]) \/ Held(v, k, "Buy", b(k))
             /\ \/ calls[v] = Global(k, op[v]) \/ calls[v] = SellHalf(k, op[v])
                \/ Held(v, k, "Sell", s(k))
        BY <1>2 DEF GlobalBy
    <2>2. \A k : b(k)' = b(k) /\ s(k)' = s(k)
        BY <1>1
    <2> HIDE DEF b, s
    <2>3. \A k \in Swqos : /\ Held(v, k, "Buy", b(k)) => Held(v, k, "Buy", b(k))'
                           /\ Held(v, k, "Sell", s(k)) => Held(v, k, "Sell", s(k))'
        <3> SUFFICES ASSUME NEW k \in Swqos
                     PROVE  /\ Held(v, k, "Buy", b(k)) => Held(v, k, "Buy", b(k))'
                            /\ Held(v, k, "Sell", s(k)) => Held(v, k, "Sell", s(k))'
            OBVIOUS
        <3>1. PICK x, z : x = b(k) /\ z = s(k) /\ x = b(k)' /\ z = s(k)'
            BY <2>2
        <3>2. /\ Held(v, k, "Buy", x) => Held(v, k, "Buy", x)'
              /\ Held(v, k, "Sell", z) => Held(v, k, "Sell", z)'
            BY <1>4, <1>5
        <3> QED  BY <3>1, <3>2 DEF Held, Exact
    <2> QED  BY <2>1, <2>3 DEF b, s
<1> QED  BY <1>1, <1>2, <1>6 DEF GlobalBy, Held, Exact

(* A writer's own step.                                                      *)
LEMMA GlobalOwn ==
    ASSUME HistoryInv, NEW w \in Writers, Write(w), Watch(w), ClearedBy(w), GlobalBy(w)
    PROVE  GlobalBy(w)'
<1>1. CASE \/ SetGlobalFeeStrategy(w) \/ SetHighLowFeeStrategies(w) \/ SetHighLowFeeStrategy(w)
           \/ SetNormalFeeStrategies(w) \/ SetOrDelete(w)
    <2>1. PICK o \in AllOps, K \in SUBSET Swqos :
             Begin(w, o, K) /\ o # Idle /\ (o.name = "global" => o \in GlobalOps /\ K = Swqos)
        BY <1>1, BeginKinds
    <2>2. op[w] = Idle /\ op'[w] = o /\ todo'[w] = K /\ UNCHANGED calls
        BY <2>1 DEF Begin, CanStart, HistoryInv, FeeInv, TypeOK
    <2>3. calls'[w] = << >>
        BY <2>2 DEF HistoryInv, FeeInv, CallInv
    <2>4. op'[w].name = "global" => Swqos \ todo'[w] = {}
        BY <2>1, <2>2
    <2> QED  BY <2>3, <2>4 DEF GlobalBy
<1>2. CASE Clear(w) \/ UpdateTip(w) \/ UpdateCuPrice(w)
    <2>1. op'[w].name # "global"
        BY <1>2 DEF Clear, UpdateTip, UpdateCuPrice, Atomically, CanStart, Idle
    <2> QED  BY <2>1 DEF GlobalBy
<1>3. CASE Finish(w)
    <2>1. op'[w].name # "global"
        BY <1>3 DEF Finish, Idle, HistoryInv, FeeInv, TypeOK
    <2> QED  BY <2>1 DEF GlobalBy
<1>4. CASE Visit(w)
    <2>0. PICK o : o = op[w]
        OBVIOUS
    <2>1. calls[w] = << >> /\ UNCHANGED <<strategies, op>>
        BY <1>4 DEF Visit
    <2>2. PICK l \in todo[w] : todo'[w] = todo[w] \ {l} /\ calls'[w] = Body(l, o)
        BY <1>4, <2>0 DEF Visit, HistoryInv, FeeInv, TypeOK
    <2>3. l \in Swqos /\ todo[w] \subseteq Swqos
        BY DEF HistoryInv, FeeInv, TypeOK
    <2>4. SUFFICES ASSUME o.name = "global"
          PROVE  /\ \E k \in Swqos \ todo'[w] : calls'[w] = Global(k, o)
                 /\ \A k \in Swqos \ todo'[w] :
                       /\ calls'[w] = Global(k, o) \/ Held(w, k, "Buy", GlobalValue(k, o.v1))'
                       /\ calls'[w] = Global(k, o) \/ Held(w, k, "Sell", GlobalValue(k, o.v2))'
        BY <2>0, <2>1 DEF GlobalBy, Held, Exact
    <2>5. calls'[w] = Global(l, o)
        BY <2>2, <2>4 DEF Body
    <2>6. touched'[w] = touched[w]
        BY <2>0, <2>1, <2>4, OwnStep DEF Idle
    <2>7. \A k \in Swqos \ todo[w] : /\ Held(w, k, "Buy", GlobalValue(k, o.v1))
                                     /\ Held(w, k, "Sell", GlobalValue(k, o.v2))
        BY <2>0, <2>1, <2>4, GlobalCalls DEF GlobalBy
    <2>8. \A k \in Swqos \ todo[w] : /\ Held(w, k, "Buy", GlobalValue(k, o.v1))'
                                     /\ Held(w, k, "Sell", GlobalValue(k, o.v2))'
        BY <2>1, <2>6, <2>7, HeldSame
    <2> QED  BY <2>2, <2>3, <2>5, <2>8
<1>5. CASE Call(w)
    <2>0. PICK o : o = op[w]
        OBVIOUS
    <2>1. calls[w] # << >> /\ UNCHANGED op
        BY <1>5 DEF Call, DelCall, DelAllCall, SetDelete, SetInsert, Returned
    <2>2. SUFFICES ASSUME o.name = "global"
          PROVE  /\ \/ calls'[w] = << >>
                    \/ \E k \in Swqos \ todo'[w] : calls'[w] = Global(k, o) \/ calls'[w] = SellHalf(k, o)
                 /\ \A k \in Swqos \ todo'[w] :
                       /\ calls'[w] = Global(k, o) \/ Held(w, k, "Buy", GlobalValue(k, o.v1))'
                       /\ \/ calls'[w] = Global(k, o) \/ calls'[w] = SellHalf(k, o)
                          \/ Held(w, k, "Sell", GlobalValue(k, o.v2))'
        BY <2>0, <2>1 DEF GlobalBy, Held, Exact
    <2>3. PICK l \in Swqos \ todo[w] : calls[w] = Global(l, o) \/ calls[w] = SellHalf(l, o)
        BY <2>0, <2>1, <2>2 DEF GlobalBy
    <2>4. \A k \in Swqos \ todo[w] : k # l =>
             /\ calls[w] # Global(k, o) /\ calls[w] # SellHalf(k, o)
        <3>1. Head(calls[w]).key[1] = l
            BY <2>3, GlobalCalls DEF Set
        <3>2. \A k : Head(Global(k, o)).key[1] = k /\ Head(SellHalf(k, o)).key[1] = k
            BY GlobalCalls DEF Set
        <3> QED  BY <3>1, <3>2
    <2>5. \A k \in Swqos \ todo[w] : k # l =>
             /\ Held(w, k, "Buy", GlobalValue(k, o.v1))
             /\ Held(w, k, "Sell", GlobalValue(k, o.v2))
        BY <2>0, <2>2, <2>4 DEF GlobalBy
    <2>6. "Buy" \in Trades /\ "Sell" \in Trades /\ DOMAIN calls = Writers /\ op[w] # Idle
        BY <2>0, <2>2 DEF Trades, Idle, HistoryInv, FeeInv, TypeOK
    <2>7. CASE calls[w] = Global(l, o)
        <3>1. Head(calls[w]) = Set(l, "Buy", "Normal", GlobalValue(l, o.v1))
            BY <2>7, GlobalCalls
        <3>2. /\ \A k \in Swqos, tr \in Trades : k # l \/ tr # "Buy" =>
                     \A x : Held(w, k, tr, x) => Held(w, k, tr, x)'
              /\ UNCHANGED todo
              /\ \/ UNCHANGED calls
                 \/ /\ calls' = [calls EXCEPT ![w] = Tail(calls[w])]
                    /\ Held(w, l, "Buy", GlobalValue(l, o.v1))'
            BY <1>5, <2>6, <3>1, SetNormalEntry
        <3>3. \A k \in Swqos \ todo[w] : k # l =>
                 /\ Held(w, k, "Buy", GlobalValue(k, o.v1))'
                 /\ Held(w, k, "Sell", GlobalValue(k, o.v2))'
            BY <2>5, <2>6, <3>2
        <3>4. CASE UNCHANGED calls
            BY <2>7, <3>2, <3>3, <3>4
        <3>5. CASE /\ calls' = [calls EXCEPT ![w] = Tail(calls[w])]
                   /\ Held(w, l, "Buy", GlobalValue(l, o.v1))'
            <4>1. calls'[w] = SellHalf(l, o)
                BY <2>6, <2>7, <3>5, GlobalCalls
            <4> QED  BY <3>2, <3>3, <3>5, <4>1
        <3> QED  BY <3>2, <3>4, <3>5
    <2>8. CASE calls[w] = SellHalf(l, o)
        <3>1. Head(calls[w]) = Set(l, "Sell", "Normal", GlobalValue(l, o.v2))
            BY <2>8, GlobalCalls
        <3>2. /\ \A k \in Swqos, tr \in Trades : k # l \/ tr # "Sell" =>
                     \A x : Held(w, k, tr, x) => Held(w, k, tr, x)'
              /\ UNCHANGED todo
              /\ \/ UNCHANGED calls
                 \/ /\ calls' = [calls EXCEPT ![w] = Tail(calls[w])]
                    /\ Held(w, l, "Sell", GlobalValue(l, o.v2))'
            BY <1>5, <2>6, <3>1, SetNormalEntry
        <3>3. \A k \in Swqos \ todo[w] : k # l =>
                 /\ Held(w, k, "Buy", GlobalValue(k, o.v1))'
                 /\ Held(w, k, "Sell", GlobalValue(k, o.v2))'
            BY <2>5, <2>6, <3>2
        <3>4. Held(w, l, "Buy", GlobalValue(l, o.v1))'
            <4>1. Head(calls[w]) # Head(Global(l, o))
                BY <3>1, GlobalCalls DEF Set
            <4>2. Held(w, l, "Buy", GlobalValue(l, o.v1))
                BY <2>0, <2>2, <4>1 DEF GlobalBy
            <4> QED  BY <2>6, <3>2, <4>2
        <3>5. CASE UNCHANGED calls
            BY <2>8, <3>2, <3>3, <3>4, <3>5
        <3>6. CASE /\ calls' = [calls EXCEPT ![w] = Tail(calls[w])]
                   /\ Held(w, l, "Sell", GlobalValue(l, o.v2))'
            <4>1. calls'[w] = << >>
                BY <2>6, <2>8, <3>6, GlobalCalls
            <4> QED  BY <3>2, <3>3, <3>4, <3>6, <4>1
        <3> QED  BY <3>2, <3>5, <3>6
    <2> QED  BY <2>3, <2>7, <2>8
<1> QED  BY <1>1, <1>2, <1>3, <1>4, <1>5 DEF Write

(* Every step of every writer.                                               *)
LEMMA GlobalStep ==
    ASSUME HistoryInv, Cleared, GlobalInv, [RaceNext]_raceVars PROVE GlobalInv'
<1>1. CASE UNCHANGED raceVars
    BY <1>1 DEF GlobalInv, GlobalBy, Held, Exact, raceVars, vars, writerVars
<1>2. ASSUME NEW w \in Writers, Write(w), Watch(w) PROVE GlobalInv'
    BY <1>2, GlobalOwn, GlobalOthers DEF GlobalInv, Cleared
<1> QED  BY <1>1, <1>2 DEF RaceNext

-----------------------------------------------------------------------------
(* What holds of the table with its history.                                 *)
RaceInv == HistoryInv /\ ConflictsAreRaces /\ Cleared /\ GlobalInv

(* An empty table has no conflict.                                           *)
LEMMA RaceInvInit == RaceInit => RaceInv
<1> SUFFICES ASSUME RaceInit PROVE RaceInv
    OBVIOUS
<1>1. HistoryInv
    BY FeeInvInit DEF RaceInit, HistoryInv
<1>2. ConflictsAreRaces
    BY KeyParts DEF RaceInit, Init, ConflictsAreRaces, Conflict, Present, StrategyTypes
<1>3. Cleared
    BY DEF RaceInit, Init, Cleared, ClearedBy
<1>4. GlobalInv
    BY DEF RaceInit, Init, GlobalInv, GlobalBy, Idle
<1> QED  BY <1>1, <1>2, <1>3, <1>4 DEF RaceInv

LEMMA RaceInvStep == ASSUME RaceInv, [RaceNext]_raceVars PROVE RaceInv'
BY HistoryStep, ExclusionStep, GlobalStep DEF RaceInv

(* get_strategies where the table has exactly one entry for a service.        *)
LEMMA ExactStrategies ==
    ASSUME NEW k \in Swqos, NEW trade \in Trades, NEW v, v # NoValue, Exact(k, trade, v)
    PROVE  {e \in get_strategies(trade) : e[1] = k} = {<<k, "Normal", v>>}
<1>1. \A y \in StrategyTypes : Present(k, trade, y) <=> y = "Normal"
    BY DEF Present, Exact, StrategyTypes
<1>2. ASSUME NEW s \in get_strategies(trade), s[1] = k PROVE s = <<k, "Normal", v>>
    <2>1. PICK e \in Swqos \X StrategyTypes :
             Present(e[1], trade, e[2]) /\ s = <<e[1], e[2], strategies[<<e[1], trade, e[2]>>]>>
        BY <1>2 DEF get_strategies
    <2>2. e[1] = k /\ e[2] \in StrategyTypes
        BY <1>2, <2>1
    <2>3. e[2] = "Normal"
        BY <1>1, <2>1, <2>2
    <2> QED  BY <2>1, <2>2, <2>3 DEF Exact
<1>3. <<k, "Normal", v>> \in get_strategies(trade)
    <2> DEFINE e == <<k, "Normal">>
    <2>1. e \in {p \in Swqos \X StrategyTypes : Present(p[1], trade, p[2])}
        BY <1>1 DEF StrategyTypes
    <2>2. <<k, "Normal", v>> = <<e[1], e[2], strategies[<<e[1], trade, e[2]>>]>>
        BY DEF Exact
    <2> QED  BY <2>1, <2>2 DEF get_strategies
<1> QED  BY <1>2, <1>3

(* The end of the loop of set_global_fee_strategy.                           *)
LEMMA GlobalEnds == ASSUME HistoryInv, GlobalInv PROVE GlobalTakesEffect
<1> SUFFICES ASSUME NEW w \in Writers, NEW k \in Swqos, NEW trade \in Trades,
                    op[w].name = "global", todo[w] = {}, calls[w] = << >>,
                    <<k, trade>> \notin touched[w]
             PROVE  {e \in get_strategies(trade) : e[1] = k} =
                       {<<k, "Normal", GlobalValue(k, IF trade = "Buy" THEN op[w].v1 ELSE op[w].v2)>>}
    BY DEF GlobalTakesEffect
<1>1. op[w].v1 \in Values /\ op[w].v2 \in Values
    <2>1. op[w] \in {Idle} \cup GlobalOps \cup HighLowOps \cup NormalOps \cup SingleOps
        BY DEF HistoryInv, FeeInv, TypeOK
    <2>2. op[w] # Idle
        BY DEF Idle
    <2>3. \A o \in SingleOps : o.name # "global"
        BY DEF SingleOps
    <2>4. \A o \in GlobalOps \cup HighLowOps \cup NormalOps : o.v1 \in Values /\ o.v2 \in Values
        BY DEF GlobalOps, HighLowOps, NormalOps
    <2> QED  BY <2>1, <2>2, <2>3, <2>4
<1>2. /\ Held(w, k, "Buy", GlobalValue(k, op[w].v1))
      /\ Held(w, k, "Sell", GlobalValue(k, op[w].v2))
    BY GlobalCalls DEF GlobalInv, GlobalBy
<1>3. GlobalValue(k, op[w].v1) # NoValue /\ GlobalValue(k, op[w].v2) # NoValue
    BY <1>1, GlobalValueTyped, NoValueAssumption
<1>4. CASE trade = "Buy"
    <2>1. Exact(k, trade, GlobalValue(k, op[w].v1))
        BY <1>2, <1>4 DEF Held
    <2> QED  BY <1>3, <1>4, <2>1, ExactStrategies
<1>5. CASE trade = "Sell"
    <2>1. Exact(k, trade, GlobalValue(k, op[w].v2))
        BY <1>2, <1>5 DEF Held
    <2> QED  BY <1>3, <1>5, <2>1, ExactStrategies
<1> QED  BY <1>4, <1>5 DEF Trades

(* With any number of writers, in whatever step of their operations the table *)
(* is loaded: a Normal entry is beside one of the high-low pair only where    *)
(* one writer put an entry while another was changing the same service and    *)
(* trade.                                                                    *)
THEOREM Exclusion == RaceSpec => []ConflictsAreRaces
<1>1. RaceInv => ConflictsAreRaces
    BY DEF RaceInv
<1> QED  BY <1>1, RaceInvInit, RaceInvStep, PTL DEF RaceSpec

(* set_global_fee_strategy leaves exactly the entries it was given for every  *)
(* service and trade that no other writer changed while it ran, for every set *)
(* of services, whatever the table held before and however many writers run.  *)
THEOREM GlobalEffect == RaceSpec => []GlobalTakesEffect
<1>1. RaceInv => GlobalTakesEffect
    BY GlobalEnds DEF RaceInv
<1> QED  BY <1>1, RaceInvInit, RaceInvStep, PTL DEF RaceSpec

(* A planner only reads the table.                                           *)
LEMMA PlannerReads == [PlanNext]_<<raceVars, planVars>> => [RaceNext]_raceVars
BY DEF PlanNext, Plan, CheckClients, PlanClient, Accept, planVars

-----------------------------------------------------------------------------
(* The plan, while any number of writers change the table under it.           *)
ArgsTyped ==
    /\ clients \in Seq(Swqos) /\ Len(clients) <= MaxClients
    /\ is_buy \in BOOLEAN /\ with_tip \in BOOLEAN
    /\ check_min_tip \in BOOLEAN /\ has_nonce \in BOOLEAN

PlannedBehind ==
    /\ planner \in {"start", "planning", "accepted", "rejected"}
    /\ cursor \in 1..(Len(clients) + 1)
    /\ task_configs \subseteq (1..MaxClients) \X StrategyTypes \X Values
    /\ IsFiniteSet(task_configs)
    /\ \A c \in task_configs : c[1] < cursor

Untipped == ~with_tip => \A c \in task_configs : clients[c[1]] = Default

PlanInv == ArgsTyped /\ PlannedBehind /\ Untipped /\ AcceptedPlanIsSafe

(* Nothing is planned at first.                                              *)
LEMMA PlanInvInit == PlanInit => PlanInv
<1> SUFFICES ASSUME PlanInit PROVE PlanInv
    OBVIOUS
<1>1. ArgsTyped
    <2>1. PICK n \in 0..MaxClients : clients \in [1..n -> Swqos]
        BY DEF PlanInit
    <2>2. clients \in Seq(Swqos) /\ Len(clients) = n
        BY <2>1, MaxClientsAssumption
    <2>3. Len(clients) <= MaxClients
        BY <2>2, MaxClientsAssumption
    <2>4. is_buy \in BOOLEAN /\ with_tip \in BOOLEAN /\ check_min_tip \in BOOLEAN /\ has_nonce \in BOOLEAN
        BY DEF PlanInit
    <2> QED  BY <2>2, <2>3, <2>4 DEF ArgsTyped
<1>2. PlannedBehind
    <2>1. IsFiniteSet(task_configs)
        BY FS_EmptySet DEF PlanInit
    <2>2. Len(clients) \in Nat
        BY <1>1 DEF ArgsTyped
    <2> QED  BY <2>1, <2>2 DEF PlanInit, PlannedBehind
<1>3. Untipped /\ AcceptedPlanIsSafe
    BY DEF PlanInit, Untipped, AcceptedPlanIsSafe
<1> QED  BY <1>1, <1>2, <1>3 DEF PlanInv

(* The configurations of one client: a few, of its own number, with values    *)
(* that are in the table.                                                    *)
LEMMA ConfigsFacts ==
    ASSUME TypeOK, ArgsTyped, NEW i \in 1..Len(clients)
    PROVE  /\ ConfigsOf(i) \subseteq (1..MaxClients) \X StrategyTypes \X Values
           /\ IsFiniteSet(ConfigsOf(i))
           /\ \A c \in ConfigsOf(i) :
                 c[1] = i /\ Present(clients[i], TradeOf, c[2])
                          /\ c = <<i, c[2], strategies[<<clients[i], TradeOf, c[2]>>]>>
<1>1. clients[i] \in Swqos /\ TradeOf \in Trades /\ i \in 1..MaxClients
    <2>1. clients[i] \in Swqos /\ Len(clients) \in Nat /\ Len(clients) <= MaxClients
        BY DEF ArgsTyped
    <2>2. TradeOf \in Trades
        BY DEF TradeOf, Trades
    <2>3. i \in 1..MaxClients
        BY <2>1, MaxClientsAssumption
    <2> QED  BY <2>1, <2>2, <2>3
<1>2. ASSUME NEW c \in ConfigsOf(i)
      PROVE  \E y \in StrategyTypes : /\ c = <<i, y, strategies[<<clients[i], TradeOf, y>>]>>
                                       /\ Present(clients[i], TradeOf, y)
    <2>1. PICK e \in get_strategies(TradeOf) : e[1] = clients[i] /\ c = <<i, e[2], e[3]>>
        BY <1>2 DEF ConfigsOf
    <2>2. PICK p \in Swqos \X StrategyTypes :
             /\ Present(p[1], TradeOf, p[2])
             /\ e = <<p[1], p[2], strategies[<<p[1], TradeOf, p[2]>>]>>
        BY DEF get_strategies
    <2>3. e[1] = p[1] /\ e[2] = p[2] /\ e[3] = strategies[<<p[1], TradeOf, p[2]>>] /\ p[2] \in StrategyTypes
        BY <2>2
    <2> QED  BY <2>1, <2>2, <2>3
<1>3. \A y \in StrategyTypes : Present(clients[i], TradeOf, y) =>
         strategies[<<clients[i], TradeOf, y>>] \in Values
    BY <1>1, KeyParts DEF Present, TypeOK
<1>4. IsFiniteSet(ConfigsOf(i))
    <2> DEFINE E(y) == <<i, y, strategies[<<clients[i], TradeOf, y>>]>>
               S == {E("Normal"), E("LowTipHighCuPrice"), E("HighTipLowCuPrice")}
    <2>1. ConfigsOf(i) \in SUBSET S
        BY <1>2 DEF StrategyTypes
    <2>2. IsFiniteSet(S)
        <3>1. IsFiniteSet({E("Normal")})
            BY FS_Singleton
        <3>2. IsFiniteSet({E("Normal")} \cup {E("LowTipHighCuPrice")})
            BY <3>1, FS_AddElement
        <3>3. IsFiniteSet(({E("Normal")} \cup {E("LowTipHighCuPrice")}) \cup {E("HighTipLowCuPrice")})
            BY <3>2, FS_AddElement
        <3>4. S = ({E("Normal")} \cup {E("LowTipHighCuPrice")}) \cup {E("HighTipLowCuPrice")}
            OBVIOUS
        <3> QED  BY <3>3, <3>4
    <2> HIDE DEF S
    <2> QED  BY <2>1, <2>2, FS_Subset
<1>5. ASSUME NEW c \in ConfigsOf(i)
      PROVE  /\ c \in (1..MaxClients) \X StrategyTypes \X Values
             /\ c[1] = i /\ Present(clients[i], TradeOf, c[2])
             /\ c = <<i, c[2], strategies[<<clients[i], TradeOf, c[2]>>]>>
    <2>1. PICK y \in StrategyTypes : /\ c = <<i, y, strategies[<<clients[i], TradeOf, y>>]>>
                                     /\ Present(clients[i], TradeOf, y)
        BY <1>2, <1>5
    <2>2. c[1] = i /\ c[2] = y
        BY <2>1
    <2>3. strategies[<<clients[i], TradeOf, y>>] \in Values
        BY <1>3, <2>1
    <2> QED  BY <1>1, <2>1, <2>2, <2>3
<1>6. ConfigsOf(i) \subseteq (1..MaxClients) \X StrategyTypes \X Values
    BY <1>5
<1> QED  BY <1>4, <1>5, <1>6

(* execute_parallel takes a step of the plan.                                *)
LEMMA PlanInvStep ==
    ASSUME FeeInv, PlanInv, [PlanNext]_<<raceVars, planVars>> PROVE PlanInv'
<1>1. CASE CheckClients
    <2>1. /\ planner' \in {"rejected", "planning"}
          /\ UNCHANGED <<clients, is_buy, with_tip, check_min_tip, has_nonce, cursor, task_configs>>
        BY <1>1 DEF CheckClients, planArgs
    <2> QED  BY <2>1 DEF PlanInv, ArgsTyped, PlannedBehind, Untipped, AcceptedPlanIsSafe
<1>2. CASE PlanClient
    <2>1. /\ planner = "planning" /\ cursor <= Len(clients) /\ cursor' = cursor + 1
          /\ \/ UNCHANGED task_configs
             \/ Eligible(clients[cursor]) /\ task_configs' = task_configs \cup ConfigsOf(cursor)
          /\ UNCHANGED <<clients, is_buy, with_tip, check_min_tip, has_nonce, planner>>
        BY <1>2 DEF PlanClient, planArgs
    <2>2. Len(clients) \in Nat /\ cursor \in 1..Len(clients) /\ cursor + 1 \in 1..(Len(clients) + 1)
        BY <2>1 DEF PlanInv, ArgsTyped, PlannedBehind
    <2>3. /\ ConfigsOf(cursor) \subseteq (1..MaxClients) \X StrategyTypes \X Values
          /\ IsFiniteSet(ConfigsOf(cursor))
          /\ \A c \in ConfigsOf(cursor) : c[1] = cursor
        BY <2>2, ConfigsFacts DEF FeeInv, PlanInv
    <2>4. IsFiniteSet(task_configs \cup ConfigsOf(cursor))
        BY <2>3, FS_Union DEF PlanInv, PlannedBehind
    <2>5. \A c \in task_configs : c[1] \in Nat /\ c[1] < cursor
        BY DEF PlanInv, PlannedBehind
    <2>6. PlannedBehind'
        <3>1. IsFiniteSet(task_configs')
            BY <2>1, <2>4 DEF PlanInv, PlannedBehind
        <3>2. \A c \in task_configs' : c[1] < cursor'
            BY <2>1, <2>2, <2>3, <2>5
        <3> QED  BY <2>1, <2>2, <2>3, <3>1, <3>2 DEF PlanInv, PlannedBehind
    <2>7. Untipped'
        BY <2>1, <2>3 DEF PlanInv, Untipped, Eligible
    <2> QED  BY <2>1, <2>6, <2>7 DEF PlanInv, ArgsTyped, AcceptedPlanIsSafe
<1>3. CASE Accept
    <2>1. /\ planner' \in {"rejected", "accepted"}
          /\ UNCHANGED <<clients, is_buy, with_tip, check_min_tip, has_nonce, cursor, task_configs>>
          /\ planner' = "accepted" =>
                task_configs # {} /\ ~(is_buy /\ Cardinality(task_configs) > 1 /\ ~has_nonce)
        BY <1>3 DEF Accept, planArgs
    <2>2. Cardinality(task_configs) \in Nat /\ (Cardinality(task_configs) = 0 <=> task_configs = {})
        BY FS_CardinalityType, FS_EmptySet DEF PlanInv, PlannedBehind
    <2>3. task_configs # {} /\ ~(Cardinality(task_configs) > 1) => Cardinality(task_configs) = 1
        BY <2>2
    <2>4. AcceptedPlanIsSafe'
        BY <2>1, <2>3 DEF PlanInv, Untipped, AcceptedPlanIsSafe
    <2> QED  BY <2>1, <2>4 DEF PlanInv, ArgsTyped, PlannedBehind, Untipped
<1>4. CASE UNCHANGED planVars
    BY <1>4 DEF PlanInv, ArgsTyped, PlannedBehind, Untipped, AcceptedPlanIsSafe, planVars, planArgs
<1> QED  BY <1>1, <1>2, <1>3, <1>4 DEF PlanNext, Plan

(* However many writers change the fees meanwhile, a plan that is let through *)
(* is not empty, has a single task for a buy without durable nonce, and sends *)
(* nothing untipped but to Default.                                          *)
THEOREM AcceptedPlans == PlanSpec => []AcceptedPlanIsSafe
<1>1. PlanInit => RaceInv /\ PlanInv
    BY RaceInvInit, PlanInvInit DEF PlanInit
<1>2. RaceInv /\ PlanInv /\ [PlanNext]_<<raceVars, planVars>> => (RaceInv /\ PlanInv)'
    BY PlannerReads, RaceInvStep, PlanInvStep DEF RaceInv, HistoryInv
<1>3. PlanInv => AcceptedPlanIsSafe
    BY DEF PlanInv
<1> QED  BY <1>1, <1>2, <1>3, PTL DEF PlanSpec

(* The client that is planned for is sent one mode, that of the table which   *)
(* was loaded for it, if nobody has raced for its fees.                       *)
LEMMA OneModeStep ==
    ASSUME RaceInv, PlanInv, OneModePerClient, [PlanNext]_<<raceVars, planVars>>
    PROVE  OneModePerClient'
<1>0. /\ UNCHANGED <<clients, is_buy>>
      /\ raced \subseteq raced'
    BY PlannerReads DEF PlanNext, Plan, CheckClients, PlanClient, Accept, planVars, planArgs, RaceNext, Watch, raceVars
<1>1. CASE UNCHANGED task_configs
    BY <1>0, <1>1 DEF OneModePerClient, TradeOf
<1>2. CASE PlanClient
    <2>1. CASE task_configs' = task_configs \cup ConfigsOf(cursor)
        <3>1. Len(clients) \in Nat /\ cursor \in 1..Len(clients)
            BY <1>2 DEF PlanClient, PlanInv, ArgsTyped, PlannedBehind
        <3>2. \A c \in ConfigsOf(cursor) :
                 c[1] = cursor /\ Present(clients[cursor], TradeOf, c[2])
                               /\ c = <<cursor, c[2], strategies[<<clients[cursor], TradeOf, c[2]>>]>>
            BY <3>1, ConfigsFacts DEF RaceInv, HistoryInv, FeeInv, PlanInv
        <3>3. \A c \in ConfigsOf(cursor) : c[2] \in StrategyTypes
            BY <3>1, ConfigsFacts DEF RaceInv, HistoryInv, FeeInv, PlanInv
        <3>4. \A c \in task_configs : c[1] # cursor
            BY <3>1 DEF PlanInv, PlannedBehind
        <3>5. clients[cursor] \in Swqos /\ TradeOf \in Trades
            BY <3>1 DEF PlanInv, ArgsTyped, TradeOf, Trades
        <3>6. ASSUME NEW c \in ConfigsOf(cursor), NEW d \in ConfigsOf(cursor), c[2] = "Normal", d # c
              PROVE  <<clients[cursor], TradeOf>> \in raced
            <4>1. d[2] # "Normal"
                BY <3>2, <3>6
            <4>2. Conflict(clients[cursor], TradeOf)
                BY <3>2, <3>3, <3>6, <4>1 DEF Conflict, StrategyTypes
            <4> QED  BY <3>5, <4>2 DEF RaceInv, ConflictsAreRaces
        <3>7. TradeOf' = TradeOf
            BY <1>0 DEF TradeOf
        <3>8. ASSUME NEW c \in task_configs', NEW d \in task_configs',
                     c[1] = d[1], c[2] = "Normal", d # c
              PROVE  <<clients[c[1]], TradeOf>> \in raced
            <4>1. CASE c \in task_configs
                <5>1. d \in task_configs
                    BY <2>1, <3>2, <3>4, <3>8, <4>1
                <5> QED  BY <3>8, <4>1, <5>1 DEF OneModePerClient
            <4>2. CASE c \in ConfigsOf(cursor)
                <5>1. c[1] = cursor /\ d \in ConfigsOf(cursor)
                    BY <2>1, <3>2, <3>4, <3>8, <4>2
                <5> QED  BY <3>6, <3>8, <4>2, <5>1
            <4> QED  BY <2>1, <4>1, <4>2
        <3> QED  BY <1>0, <3>7, <3>8 DEF OneModePerClient
    <2> QED  BY <1>1, <1>2, <2>1 DEF PlanClient
<1> QED  BY <1>1, <1>2 DEF PlanNext, Plan, CheckClients, Accept, planVars

(* However many writers change the fees meanwhile: a client is planned a      *)
(* Normal transaction beside one of the high-low pair only if two of them     *)
(* raced for its service and this trade; and the plan that is let through is  *)
(* what the guards of execute_parallel ask for.                               *)
THEOREM PlanSafe == PlanSpec => []PlanIsSafe
<1> DEFINE Inv == RaceInv /\ PlanInv /\ OneModePerClient
<1>1. PlanInit => Inv
    BY RaceInvInit, PlanInvInit DEF PlanInit, OneModePerClient
<1>2. Inv /\ [PlanNext]_<<raceVars, planVars>> => Inv'
    BY PlannerReads, RaceInvStep, PlanInvStep, OneModeStep DEF RaceInv, HistoryInv
<1>3. Inv => PlanIsSafe
    <2> SUFFICES ASSUME Inv PROVE PlanTypeOK
        BY DEF PlanInv, PlanIsSafe
    <2>1. Len(clients) \in Nat /\ Len(clients) <= MaxClients
        BY DEF PlanInv, ArgsTyped
    <2>2. cursor \in 1..(MaxClients + 1)
        BY <2>1, MaxClientsAssumption DEF PlanInv, PlannedBehind
    <2>3. RaceTypeOK
        BY DEF RaceInv, HistoryInv, FeeInv, RaceTypeOK
    <2> QED  BY <2>2, <2>3 DEF PlanInv, ArgsTyped, PlannedBehind, PlanTypeOK
<1> HIDE DEF Inv
<1> QED  BY <1>1, <1>2, <1>3, PTL DEF PlanSpec

-----------------------------------------------------------------------------
(* Startup.                                                                  *)
Phases == {"begin", "rents", "clients", "fast_init", "wsol", "ready", "panicked"}
Places == {"off", "fetch1", "store1", "fetch2", "store2"}
Running == {"clients", "fast_init", "wsol", "ready"}

(* The account: what landed has created it, and a client that returned has   *)
(* seen that.                                                                *)
AccountInv ==
    /\ SetupTypeOK
    /\ landed # {} => account
    /\ ReadyMeansAccountExists

(* The constructors and the updaters have their types.                       *)
PlacesTyped ==
    /\ plan \in [Clients -> [kind : {"new", "shared"}, create_wsol_ata : BOOLEAN]]
    /\ phase \in [Clients -> Phases]
    /\ updater \in [Clients -> Places]
    /\ fetched \in [Clients -> 0..MaxRent \cup {U64MAX}]
    /\ rents \in [Programs -> 0..MaxRent \cup {U64MAX}]
    /\ minimum \in 0..MaxRent

(* The setup begins when the constructor has come to it.                     *)
SetupAfterConstructor ==
    \A c \in Clients : client[c] # "start" =>
        plan[c].create_wsol_ata /\ phase[c] \in {"wsol", "ready", "panicked"}

(* What is stored was fetched, and the second rent comes after the first.    *)
RoundInOrder ==
    \A c \in Clients :
        /\ updater[c] \in {"store1", "store2"} => fetched[c] # U64MAX
        /\ updater[c] \in {"fetch2", "store2"} => rents["spl"] # U64MAX

InstanceReady ==
    /\ instance \in Clients \cup {NoClient}
    /\ InstanceIsComplete

StartInv ==
    /\ AccountInv /\ PlacesTyped /\ SetupAfterConstructor /\ RoundInOrder
    /\ RentsAreInitialized /\ InstanceReady

-----------------------------------------------------------------------------
(* At first nothing is fetched, started or set up.                           *)
LEMMA StartInvInit == StartInit => StartInv
<1> SUFFICES ASSUME StartInit PROVE StartInv
    OBVIOUS
<1>1. AccountInv
    BY MaxRetriesAssumption DEF StartInit, SetupInit, AccountInv, SetupTypeOK, ReadyMeansAccountExists
<1>2. PlacesTyped
    BY MaxRentAssumption, PlansAssumption DEF StartInit, PlacesTyped, Phases, Places
<1>3. SetupAfterConstructor /\ RoundInOrder /\ RentsAreInitialized /\ InstanceReady
    BY DEF StartInit, SetupInit, SetupAfterConstructor, RoundInOrder, RentsAreInitialized,
       InstanceReady, InstanceIsComplete
<1> QED  BY <1>1, <1>2, <1>3 DEF StartInv

-----------------------------------------------------------------------------
(* The end of an attempt is the next one or the panic, never a return.       *)
LEMMA AttemptMoves ==
    ASSUME SetupTypeOK, NEW c \in Clients, NextAttempt(c)
    PROVE  /\ attempt' \in [Clients -> 1..MaxRetries]
           /\ \E to \in {"blockhash", "panicked"} : client' = [client EXCEPT ![c] = to]
<1>1. CASE attempt[c] < MaxRetries
    <2>1. attempt[c] + 1 \in 1..MaxRetries
        BY <1>1, MaxRetriesAssumption DEF SetupTypeOK
    <2> QED  BY <1>1, <2>1 DEF NextAttempt, Goto, SetupTypeOK
<1>2. CASE ~(attempt[c] < MaxRetries)
    BY <1>2 DEF NextAttempt, Goto, SetupTypeOK
<1> QED  BY <1>1, <1>2

(* A step of ensure_wsol_ata moves its own client, to "returned" only if     *)
(* there is an account.                                                      *)
LEMMA ClientMoves ==
    ASSUME AccountInv, NEW c \in Clients, Client(c)
    PROVE  /\ \E to \in {"blockhash", "confirm", "verify", "returned", "panicked"} :
                 client' = [client EXCEPT ![c] = to] /\ (to = "returned" => account)
           /\ attempt' \in [Clients -> 1..MaxRetries]
           /\ inflight' \subseteq Transactions
           /\ landed' \subseteq landed
           /\ UNCHANGED account
<1>1. CASE AccountExists(c) \/ AccountNotFound(c) \/ VerifyFinds(c)
    BY <1>1 DEF AccountInv, SetupTypeOK, AccountExists, AccountNotFound, VerifyFinds, Goto, clusterVars
<1>2. CASE BlockhashFails(c) \/ VerifyFails(c) \/ TimesOut(c)
    <2>1. NextAttempt(c) /\ UNCHANGED <<account, inflight>> /\ landed' \subseteq landed
        BY <1>2 DEF BlockhashFails, VerifyFails, TimesOut, clusterVars
    <2>2. /\ attempt' \in [Clients -> 1..MaxRetries]
          /\ \E to \in {"blockhash", "panicked"} : client' = [client EXCEPT ![c] = to]
        BY <2>1, AttemptMoves DEF AccountInv
    <2> QED  BY <2>1, <2>2 DEF AccountInv, SetupTypeOK
<1>3. CASE SendCreation(c)
    <2>1. Tx(c) \in Transactions
        BY DEF Tx, Transactions, AccountInv, SetupTypeOK
    <2> QED  BY <1>3, <2>1 DEF SendCreation, Goto, AccountInv, SetupTypeOK
<1>4. CASE Confirmed(c) \/ SendFails(c)
    BY <1>4 DEF Confirmed, SendFails, Goto, AccountInv, SetupTypeOK
<1> QED  BY <1>1, <1>2, <1>3, <1>4 DEF Client

(* The account exists for every client that returned, whoever created it.    *)
LEMMA AccountClient ==
    ASSUME AccountInv, NEW c \in Clients, Client(c) PROVE AccountInv'
<1>1. PICK to \in {"blockhash", "confirm", "verify", "returned", "panicked"} :
         client' = [client EXCEPT ![c] = to] /\ (to = "returned" => account)
    BY ClientMoves
<1>2. /\ attempt' \in [Clients -> 1..MaxRetries]
      /\ inflight' \subseteq Transactions
      /\ landed' \subseteq landed
      /\ UNCHANGED account
    BY ClientMoves
<1>3. SetupTypeOK'
    BY <1>1, <1>2 DEF AccountInv, SetupTypeOK
<1>4. landed' # {} => account'
    BY <1>2 DEF AccountInv
<1>5. ReadyMeansAccountExists'
    BY <1>1, <1>2 DEF AccountInv, ReadyMeansAccountExists, SetupTypeOK
<1> QED  BY <1>3, <1>4, <1>5 DEF AccountInv

(* A transaction that is executed creates the account; one that expires      *)
(* changes nothing else.                                                     *)
LEMMA AccountCluster ==
    ASSUME AccountInv, Cluster
    PROVE  AccountInv' /\ UNCHANGED client /\ (account => account')
<1>1. PICK x \in Transactions : LandCreation(x) \/ ExpireCreation(x)
    BY DEF Cluster
<1>2. CASE LandCreation(x)
    BY <1>1, <1>2 DEF LandCreation, AccountInv, SetupTypeOK, ReadyMeansAccountExists
<1>3. CASE ExpireCreation(x)
    BY <1>1, <1>3 DEF ExpireCreation, AccountInv, SetupTypeOK, ReadyMeansAccountExists
<1> QED  BY <1>1, <1>2, <1>3

-----------------------------------------------------------------------------
(* ensure_wsol_ata, awaited or in the background.                            *)
LEMMA SetupStep == ASSUME StartInv, NEW c \in Clients, EnsureWsolAta(c) PROVE StartInv'
<1>1. SetsUp(c) /\ Client(c) /\ UNCHANGED <<rentVars, startVars>>
    BY DEF EnsureWsolAta
<1>2. AccountInv' /\ UNCHANGED account
    BY <1>1, AccountClient, ClientMoves DEF StartInv
<1>3. \E to : client' = [client EXCEPT ![c] = to]
    BY <1>1, ClientMoves DEF StartInv
<1>4. SetupAfterConstructor'
    BY <1>1, <1>3 DEF StartInv, AccountInv, SetupTypeOK, SetupAfterConstructor, SetsUp, startVars
<1> QED  BY <1>1, <1>2, <1>4 DEF StartInv, PlacesTyped, RoundInOrder, RentsAreInitialized, InstanceReady,
                InstanceIsComplete, rentVars, startVars

(* The cluster.                                                              *)
LEMMA ClusterKeeps == ASSUME StartInv, ClusterStep PROVE StartInv'
<1>1. UNCHANGED <<rentVars, startVars>> /\ Cluster
    BY DEF ClusterStep
<1>2. AccountInv' /\ UNCHANGED client /\ (account => account')
    BY <1>1, AccountCluster DEF StartInv
<1> QED  BY <1>1, <1>2 DEF StartInv, PlacesTyped, SetupAfterConstructor, RoundInOrder,
                RentsAreInitialized, InstanceReady, InstanceIsComplete, rentVars, startVars

(* A constructor takes a step: it goes on only from where both rents are      *)
(* known, and publishes the client when its setup has returned.              *)
LEMMA ConstructStep == ASSUME StartInv, NEW c \in Clients, Construct(c) PROVE StartInv'
<1>1. UNCHANGED <<account, inflight, landed, client, attempt, minimum, rents, fetched, plan>>
    BY DEF Construct, BeginNew, BeginShared, CreateClients, fast_init, FinishNew, SetupPanics,
       setupVars, clusterVars, rentVars
<1>2. AccountInv'
    BY <1>1 DEF StartInv, AccountInv, SetupTypeOK, ReadyMeansAccountExists
<1>3. PICK to \in Phases :
         /\ phase' = [phase EXCEPT ![c] = to]
         /\ \/ phase[c] = "begin" /\ to = "rents"
            \/ phase[c] = "begin" /\ to = "fast_init" /\ \E d \in Clients : phase[d] \in Running
            \/ phase[c] = "clients" /\ to = "fast_init"
            \/ phase[c] = "fast_init" /\ to \in {"wsol", "ready"}
            \/ phase[c] = "wsol" /\ to \in {"ready", "panicked"}
    BY DEF Construct, BeginNew, BeginShared, CreateClients, fast_init, FinishNew, SetupPanics,
       SetupDone, Enter, Phases, Running
<1>4. updater' = updater \/ updater' = [updater EXCEPT ![c] = "fetch1"]
    BY DEF Construct, BeginNew, BeginShared, CreateClients, fast_init, FinishNew, SetupPanics,
       Update, rentVars
<1>5. \/ instance' = instance
      \/ /\ instance' = c /\ phase[c] = "wsol" /\ phase' = [phase EXCEPT ![c] = "ready"]
         /\ plan[c].create_wsol_ata => client[c] = "returned"
    BY DEF Construct, BeginNew, BeginShared, CreateClients, fast_init, FinishNew, SetupPanics,
       SetupDone, Enter
<1>6. PlacesTyped'
    BY <1>1, <1>3, <1>4 DEF StartInv, PlacesTyped, Places
<1>7. DOMAIN phase = Clients /\ DOMAIN updater = Clients
    BY DEF StartInv, PlacesTyped
<1>8. SetupAfterConstructor'
    BY <1>1, <1>3, <1>7 DEF StartInv, SetupAfterConstructor
<1>9. RoundInOrder'
    BY <1>1, <1>4, <1>7 DEF StartInv, RoundInOrder
<1>10. RentsAreInitialized'
    BY <1>1, <1>3, <1>7 DEF StartInv, RentsAreInitialized, Running
<1>11. InstanceReady'
    <2>1. CASE instance' = instance
        BY <1>1, <1>3, <1>7, <2>1 DEF StartInv, InstanceReady, InstanceIsComplete
    <2>2. CASE instance' # instance
        <3>1. /\ instance' = c /\ phase'[c] = "ready" /\ account' = account
              /\ plan[c].create_wsol_ata => client[c] = "returned"
            BY <1>1, <1>5, <1>7, <2>2
        <3>2. client[c] = "returned" => account
            BY DEF StartInv, AccountInv, ReadyMeansAccountExists
        <3> QED  BY <1>1, <3>1, <3>2 DEF InstanceReady, InstanceIsComplete
    <2> QED  BY <2>1, <2>2
<1> QED  BY <1>2, <1>6, <1>8, <1>9, <1>10, <1>11 DEF StartInv

(* update_rents: a rent is never stored before it is fetched, and the         *)
(* constructor goes on only after the second store.                          *)
LEMMA RentStep == ASSUME StartInv, NEW c \in Clients, UpdateRents(c) PROVE StartInv'
<1>1. UNCHANGED <<account, inflight, landed, client, attempt, minimum, plan, instance>>
    BY DEF UpdateRents, FetchOk, FetchFails, StoreFirst, StoreSecond, setupVars, clusterVars, startVars
<1>2. AccountInv'
    BY <1>1 DEF StartInv, AccountInv, SetupTypeOK, ReadyMeansAccountExists
<1>3. /\ DOMAIN phase = Clients /\ DOMAIN updater = Clients
      /\ DOMAIN fetched = Clients /\ DOMAIN rents = Programs
      /\ minimum # U64MAX
    BY MaxRentAssumption DEF StartInv, PlacesTyped, U64MAX
<1>4. \/ phase' = phase
      \/ /\ phase[c] = "rents"
         /\ \E to \in {"clients", "panicked"} : phase' = [phase EXCEPT ![c] = to]
    BY DEF UpdateRents, FetchOk, FetchFails, StoreFirst, StoreSecond, Enter, startVars
<1>5. SetupAfterConstructor'
    BY <1>1, <1>3, <1>4 DEF StartInv, SetupAfterConstructor
<1>6. InstanceReady'
    BY <1>1, <1>3, <1>4 DEF StartInv, InstanceReady, InstanceIsComplete
<1>7. PlacesTyped'
    <2>1. phase' \in [Clients -> Phases]
        BY <1>4 DEF StartInv, PlacesTyped, Phases
    <2>2. updater' \in [Clients -> Places]
        BY DEF StartInv, PlacesTyped, Places, UpdateRents, FetchOk, FetchFails, StoreFirst, StoreSecond,
           Update
    <2>3. /\ fetched' \in [Clients -> 0..MaxRent \cup {U64MAX}]
          /\ rents' \in [Programs -> 0..MaxRent \cup {U64MAX}]
        BY DEF StartInv, PlacesTyped, UpdateRents, FetchOk, FetchFails, StoreFirst, StoreSecond
    <2> QED  BY <1>1, <2>1, <2>2, <2>3 DEF StartInv, PlacesTyped
<1>8. \A p \in Programs : rents[p] # U64MAX => rents'[p] # U64MAX
    BY <1>3 DEF StartInv, RoundInOrder, UpdateRents, FetchOk, FetchFails, StoreFirst, StoreSecond
<1>9. RoundInOrder'
    <2>1. \A d \in Clients : d # c => updater'[d] = updater[d] /\ fetched'[d] = fetched[d]
        BY DEF StartInv, PlacesTyped, UpdateRents, FetchOk, FetchFails, StoreFirst, StoreSecond, Update
    <2>2. updater'[c] \in {"store1", "store2"} => fetched'[c] # U64MAX
        BY <1>3 DEF UpdateRents, FetchOk, FetchFails, StoreFirst, StoreSecond, Update
    <2>3. updater'[c] \in {"fetch2", "store2"} => rents'["spl"] # U64MAX
        BY <1>3 DEF StartInv, RoundInOrder, Programs, UpdateRents, FetchOk, FetchFails, StoreFirst,
           StoreSecond, Update
    <2>4. "spl" \in Programs
        BY DEF Programs
    <2> QED  BY <1>8, <2>1, <2>2, <2>3, <2>4 DEF StartInv, RoundInOrder
<1>10. RentsAreInitialized'
    <2>1. ASSUME phase'[c] = "clients", phase[c] = "rents"
          PROVE  \A p \in Programs : rents'[p] # U64MAX
        <3>1. StoreSecond(c)
            BY <1>3, <2>1 DEF UpdateRents, FetchOk, FetchFails, StoreFirst, Enter, startVars
        <3>2. rents["spl"] # U64MAX /\ fetched[c] # U64MAX
            BY <3>1 DEF StoreSecond, StartInv, RoundInOrder
        <3> QED  BY <1>3, <3>1, <3>2 DEF StoreSecond, Programs
    <2> QED  BY <1>3, <1>4, <1>8, <2>1 DEF StartInv, RentsAreInitialized
<1> QED  BY <1>2, <1>5, <1>6, <1>7, <1>9, <1>10 DEF StartInv

(* Every step keeps it.                                                      *)
LEMMA StartInvStep == ASSUME StartInv, [StartNext]_allVars PROVE StartInv'
<1>1. ASSUME NEW c \in Clients, Construct(c) \/ UpdateRents(c) \/ EnsureWsolAta(c) PROVE StartInv'
    BY <1>1, ConstructStep, RentStep, SetupStep
<1>2. CASE ClusterStep
    BY <1>2, ClusterKeeps
<1>3. CASE RentChanges
    <2>1. UNCHANGED <<account, inflight, landed, client, attempt, rents, updater, fetched, startVars>>
        BY <1>3 DEF RentChanges, setupVars, clusterVars
    <2>2. minimum' \in 0..MaxRent
        BY <1>3, MaxRentAssumption DEF RentChanges, StartInv, PlacesTyped
    <2> QED  BY <2>1, <2>2 DEF StartInv, AccountInv, SetupTypeOK, ReadyMeansAccountExists, PlacesTyped,
                SetupAfterConstructor, RoundInOrder, RentsAreInitialized, InstanceReady,
                InstanceIsComplete, startVars
<1>4. CASE UNCHANGED allVars
    <2>1. UNCHANGED <<account, inflight, landed, client, attempt, rentVars, startVars>>
        BY <1>4 DEF allVars, setupVars, clusterVars
    <2> QED  BY <2>1 DEF StartInv, AccountInv, SetupTypeOK, ReadyMeansAccountExists, PlacesTyped,
                SetupAfterConstructor, RoundInOrder, RentsAreInitialized, InstanceReady,
                InstanceIsComplete, rentVars, startVars
<1> QED  BY <1>1, <1>2, <1>3, <1>4 DEF StartNext

(* Whatever fails on the way, the constructors, the updaters and the setups   *)
(* of any number of clients stay in step.                                    *)
THEOREM StartInvariance == StartSpec => []StartInv
BY StartInvInit, StartInvStep, PTL DEF StartSpec

(* When a client is handed out both rents are known, the account it waited    *)
(* for exists, and get_instance returns a client that is complete.           *)
THEOREM Complete == StartSpec => []ClientsAreComplete
<1>1. StartInv => ClientsAreComplete
    BY DEF StartInv, AccountInv, PlacesTyped, SetupAfterConstructor, InstanceReady, Phases, Places,
       ClientsAreComplete, StartTypeOK
<1> QED  BY <1>1, StartInvariance, PTL

-----------------------------------------------------------------------------
(* The loop of TradingInfrastructure::new over the configurations.  The first *)
(* i rounds have used these.                                                 *)
Used(failed, i) == {j \in 1..i : ~is_blacklisted(Configs[j]) /\ j \notin failed}

(* They are finitely many, and a round adds at most its own.                 *)
LEMMA UsedFacts ==
    ASSUME NEW failed, NEW i \in Nat
    PROVE  /\ IsFiniteSet(Used(failed, i)) /\ Cardinality(Used(failed, i)) \in Nat
           /\ Used(failed, i) \subseteq 1..i
<1>1. Used(failed, i) \subseteq 1..i /\ IsFiniteSet(1..i)
    BY FS_Interval DEF Used
<1>2. IsFiniteSet(Used(failed, i))
    BY <1>1, FS_Subset
<1> QED  BY <1>1, <1>2, FS_CardinalityType

(* The place of a configuration in the list is a place of the list.          *)
LEMMA RankIsPlace ==
    ASSUME NEW U, IsFiniteSet(U), NEW j \in U, j \in Nat, j >= 1
    PROVE  Cardinality(U \cap (1..j)) \in 1..Cardinality(U)
<1> DEFINE R == U \cap (1..j)
<1>1. R \subseteq U /\ j \in R
    OBVIOUS
<1> HIDE DEF R
<1>2. IsFiniteSet(R) /\ Cardinality(R) <= Cardinality(U)
    BY <1>1, FS_Subset
<1>3. Cardinality(R) \in Nat /\ Cardinality(U) \in Nat /\ Cardinality(R) # 0
    BY <1>1, <1>2, FS_CardinalityType, FS_EmptySet
<1> QED  BY <1>2, <1>3 DEF R

(* One round appends the client of its configuration, or leaves the list.     *)
LEMMA CreateRound ==
    ASSUME NEW failed, NEW C, NEW i \in 1..Len(Configs), NEW out \in Seq(C),
           NewClient(Configs[i]) \in C, Lists(out, Used(failed, i - 1))
    PROVE  Lists(IF is_blacklisted(Configs[i]) \/ i \in failed THEN out
                 ELSE Append(out, NewClient(Configs[i])), Used(failed, i))
<1> DEFINE new == NewClient(Configs[i])
           U == Used(failed, i - 1)
<1>1. Len(Configs) \in Nat /\ i \in Nat /\ i - 1 \in Nat
    BY ConfigsAssumption
<1>2. IsFiniteSet(U) /\ Cardinality(U) \in Nat /\ U \subseteq 1..(i - 1)
    BY <1>1, UsedFacts
<1>3. CASE is_blacklisted(Configs[i]) \/ i \in failed
    <2>1. Used(failed, i) = U
        BY <1>1, <1>3 DEF Used
    <2> QED  BY <1>3, <2>1
<1>4. CASE ~(is_blacklisted(Configs[i]) \/ i \in failed)
    <2>1. Used(failed, i) = U \cup {i} /\ i \notin U
        BY <1>1, <1>4 DEF Used
    <2> HIDE DEF U, new
    <2> DEFINE V == U \cup {i}
               list == Append(out, new)
    <2>2. Cardinality(V) = Cardinality(U) + 1 /\ IsFiniteSet(V)
        BY <1>2, <2>1, FS_AddElement
    <2>3. Len(out) = Cardinality(U) /\ \A j \in U : out[Cardinality(U \cap (1..j))] = NewClient(Configs[j])
        BY DEF Lists, U
    <2>4. /\ Len(list) = Len(out) + 1
          /\ \A k \in 1..Len(out) : list[k] = out[k]
          /\ list[Len(out) + 1] = new
        BY AppendProperties DEF new
    <2> HIDE DEF list
    <2>5. ASSUME NEW j \in U PROVE list[Cardinality(V \cap (1..j))] = NewClient(Configs[j])
        <3>1. j \in 1..(i - 1)
            BY <1>2
        <3>2. V \cap (1..j) = U \cap (1..j)
            BY <1>1, <3>1
        <3>3. Cardinality(U \cap (1..j)) \in 1..Cardinality(U)
            BY <1>1, <1>2, <3>1, RankIsPlace
        <3> QED  BY <2>3, <2>4, <3>2, <3>3
    <2>6. list[Cardinality(V \cap (1..i))] = NewClient(Configs[i])
        <3>1. V \cap (1..i) = V
            <4>1. i \in 1..i /\ \A j \in 1..(i - 1) : j \in 1..i
                BY <1>1
            <4> QED  BY <1>2, <4>1
        <3>2. Cardinality(V) = Len(out) + 1
            BY <2>2, <2>3
        <3> HIDE DEF V
        <3> QED  BY <2>4, <3>1, <3>2, Zenon DEF new
    <2>7. Lists(list, V)
        BY <2>2, <2>3, <2>4, <2>5, <2>6 DEF Lists
    <2> QED  BY <1>4, <2>1, <2>7 DEF list, new, U
<1> QED  BY <1>3, <1>4

(* The whole loop, by induction over its rounds: whatever could not be        *)
(* created, the others are in the list, in the order of the configuration.    *)
LEMMA CreatedFollows ==
    ASSUME NEW failed \in SUBSET {i \in DOMAIN Configs : Configs[i].type \in Connecting}
    PROVE  Follows(Created(failed))
<1> DEFINE n == Len(Configs)
           C == {NewClient(Configs[i]) : i \in DOMAIN Configs}
           Turn(i, out) == IF is_blacklisted(Configs[i]) \/ i \in failed THEN out
                           ELSE Append(out, NewClient(Configs[i]))
           Round == [x \in (1..n) \X Seq(C) |-> Turn(x[1], x[2])]
           Is(f) == f = [i \in 0..n |-> IF i = 0 THEN << >>
                                        ELSE IF is_blacklisted(Configs[i]) \/ i \in failed THEN f[i - 1]
                                        ELSE Append(f[i - 1], NewClient(Configs[i]))]
           list == CHOOSE f : Is(f)
<1>1. n \in Nat /\ DOMAIN Configs = 1..n
    BY ConfigsAssumption
<1>2. << >> \in Seq(C) /\ \A i \in 1..n : NewClient(Configs[i]) \in C
    BY <1>1
<1> HIDE DEF C
<1>3. \A i \in 1..n, out \in Seq(C) : Turn(i, out) \in Seq(C)
    BY <1>2
<1> HIDE DEF Turn
<1>4. Round \in [(1..n) \X Seq(C) -> Seq(C)]
    BY <1>3
<1>5. PICK F \in [0..n -> Seq(C)] : F[0] = << >> /\ \A i \in 1..n : F[i] = Round[<<i, F[i - 1]>>]
    <2> HIDE DEF Round, n
    <2>1. n \in Nat /\ << >> \in Seq(C) /\ IsBody(Round, n, Seq(C))
        BY <1>1, <1>2, <1>4 DEF IsBody
    <2>2. \E F : AreStates(F, n, Seq(C), << >>, Round)
        BY <2>1, LoopHasStates
    <2> QED  BY <2>2 DEF AreStates
<1>6. \A i \in 1..n : F[i] = Turn(i, F[i - 1])
    <2> SUFFICES ASSUME NEW i \in 1..n PROVE F[i] = Turn(i, F[i - 1])
        OBVIOUS
    <2>1. i - 1 \in 0..n
        BY <1>1
    <2>2. <<i, F[i - 1]>> \in (1..n) \X Seq(C)
        BY <1>5, <2>1
    <2> QED  BY <1>5, <2>2
<1> HIDE DEF Round
<1>7. Is(F)
    <2>1. F = [i \in 0..n |-> F[i]]
        BY <1>5
    <2>2. ASSUME NEW i \in 0..n
          PROVE  F[i] = IF i = 0 THEN << >>
                        ELSE IF is_blacklisted(Configs[i]) \/ i \in failed THEN F[i - 1]
                        ELSE Append(F[i - 1], NewClient(Configs[i]))
        <3>1. CASE i = 0
            BY <1>5, <3>1
        <3>2. CASE i # 0
            <4>1. i \in 1..n
                BY <1>1, <3>2
            <4> QED  BY <1>6, <3>2, <4>1 DEF Turn
        <3> QED  BY <3>1, <3>2
    <2> QED  BY <2>1, <2>2
<1>8. Is(list)
    <2> HIDE DEF Is
    <2> QED  BY <1>7
<1>9. Created(failed) = list[n]
    BY DEF Created
<1>10. list[0] = << >> /\ \A i \in 1..n : list[i] = Turn(i, list[i - 1])
    <2> HIDE DEF list
    <2>1. 0 \in 0..n /\ \A i \in 1..n : i \in 0..n /\ i # 0
        BY <1>1
    <2> QED  BY <1>8, <2>1 DEF Turn
<1> HIDE DEF list, Is
<1> DEFINE Right(i) == list[i] \in Seq(C) /\ Lists(list[i], Used(failed, i))
           Wrong == {i \in 0..n : ~Right(i)}
<1>11. Wrong = {}
    <2>1. SUFFICES ASSUME Wrong # {} PROVE FALSE
        OBVIOUS
    <2>2. PICK m \in Wrong : \A k \in Wrong : m <= k
        <3>1. Wrong \in SUBSET Nat
            OBVIOUS
        <3> HIDE DEF Wrong
        <3> QED  BY <2>1, <3>1, Least
    <2>3. CASE m = 0
        <3>1. Used(failed, 0) = {}
            BY DEF Used
        <3>2. Lists(<< >>, {})
            BY FS_EmptySet DEF Lists
        <3> QED  BY <1>2, <1>10, <2>2, <2>3, <3>1, <3>2
    <2>4. CASE m # 0
        <3>1. m \in 1..n /\ m - 1 \in 0..n /\ m - 1 \notin Wrong
            BY <1>1, <2>2, <2>4
        <3>2. list[m - 1] \in Seq(C) /\ Lists(list[m - 1], Used(failed, m - 1))
            BY <3>1
        <3>3. Lists(Turn(m, list[m - 1]), Used(failed, m))
            BY <1>2, <3>1, <3>2, CreateRound DEF Turn
        <3>4. list[m] \in Seq(C)
            BY <1>3, <1>10, <3>1, <3>2
        <3> QED  BY <1>10, <2>2, <3>1, <3>3, <3>4
    <2> QED  BY <2>3, <2>4
<1>12. Lists(Created(failed), Used(failed, n))
    BY <1>1, <1>9, <1>11
<1>13. /\ Used(failed, n) \in SUBSET DOMAIN Configs
       /\ \A i \in Used(failed, n) : Configs[i].type \notin SWQOS_BLACKLIST
       /\ \A i \in DOMAIN Configs \ Used(failed, n) : Configs[i].type \in SWQOS_BLACKLIST \cup Connecting
    BY <1>1 DEF Used, is_blacklisted
<1> QED  BY <1>12, <1>13 DEF Follows

(* A constructor has its services when its list is built or taken over, and   *)
(* no step changes them afterwards.                                          *)
LEMMA FollowStep == ASSUME StartInv, ClientsFollowConfig, DOMAIN swqos_clients = Clients, [StartNext]_allVars
                    PROVE  ClientsFollowConfig' /\ DOMAIN swqos_clients' = Clients
<1> DEFINE Has == {"fast_init", "wsol", "ready"}
<1>0. DOMAIN phase = Clients
    BY DEF StartInv, PlacesTyped
<1>1. ASSUME NEW c \in Clients, Construct(c) \/ UpdateRents(c)
      PROVE  ClientsFollowConfig' /\ DOMAIN swqos_clients' = Clients
    <2>1. CASE BeginShared(c)
        <3>1. PICK d \in Clients :
                 /\ phase[d] \in Has
                 /\ swqos_clients' = [swqos_clients EXCEPT ![c] = swqos_clients[d]]
                 /\ phase' = [phase EXCEPT ![c] = "fast_init"]
            BY <2>1 DEF BeginShared, Enter
        <3> QED  BY <1>0, <3>1 DEF ClientsFollowConfig
    <2>2. CASE CreateClients(c)
        <3>1. PICK failed \in SUBSET {i \in DOMAIN Configs : Configs[i].type \in Connecting} :
                 /\ swqos_clients' = [swqos_clients EXCEPT ![c] = Created(failed)]
                 /\ phase' = [phase EXCEPT ![c] = "fast_init"]
            BY <2>2 DEF CreateClients, Enter
        <3>2. Follows(Created(failed))
            BY CreatedFollows
        <3> QED  BY <1>0, <3>1, <3>2 DEF ClientsFollowConfig
    <2>3. CASE ~BeginShared(c) /\ ~CreateClients(c)
        <3>1. UNCHANGED swqos_clients
            BY <1>1, <2>3 DEF Construct, UpdateRents, BeginNew, fast_init, FinishNew, SetupPanics,
               FetchOk, FetchFails, StoreFirst, StoreSecond, startVars
        <3>2. \/ UNCHANGED phase
              \/ \E to : /\ phase' = [phase EXCEPT ![c] = to]
                         /\ to \in Has => phase[c] \in Has
            BY <1>1, <2>3 DEF Construct, UpdateRents, BeginNew, fast_init, FinishNew, SetupPanics,
               FetchOk, FetchFails, StoreFirst, StoreSecond, startVars, Enter, SetupDone
        <3> QED  BY <1>0, <3>1, <3>2 DEF ClientsFollowConfig
    <2> QED  BY <2>1, <2>2, <2>3
<1>2. CASE UNCHANGED <<phase, swqos_clients>>
    BY <1>2 DEF ClientsFollowConfig
<1>3. CASE \E c \in Clients : EnsureWsolAta(c)
    BY <1>2, <1>3 DEF EnsureWsolAta, startVars
<1>4. CASE ClusterStep \/ RentChanges \/ UNCHANGED allVars
    BY <1>2, <1>4 DEF ClusterStep, RentChanges, startVars, allVars
<1> QED  BY <1>1, <1>3, <1>4 DEF StartNext

(* The services a client trades with are the configured ones in their order,  *)
(* for configurations of any length: none of the blacklist, and every one     *)
(* that needs no connection, whichever others could not be created and        *)
(* whichever client built the list.                                          *)
THEOREM ServicesFollowConfig == StartSpec => []ClientsFollowConfig
<1>1. StartInit => ClientsFollowConfig /\ DOMAIN swqos_clients = Clients
    BY DEF StartInit, ClientsFollowConfig
<1>2. StartInv /\ (ClientsFollowConfig /\ DOMAIN swqos_clients = Clients) /\ [StartNext]_allVars
        => (ClientsFollowConfig /\ DOMAIN swqos_clients = Clients)'
    BY FollowStep
<1> QED  BY <1>1, <1>2, StartInvariance, PTL DEF StartSpec
=============================================================================
