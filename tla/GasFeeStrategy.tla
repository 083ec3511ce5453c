--------------------------- MODULE GasFeeStrategy ---------------------------
(***************************************************************************)
(* `GasFeeStrategy` (common/gas_fee_strategy.rs): the fee table shared by   *)
(* every clone of the SDK's strategy object.  Each `rcu` replaces the whole *)
(* table atomically; the public operations are several of them in a row, so *)
(* readers and other writers come in between.                               *)
(***************************************************************************)
EXTENDS Naturals, Sequences, FiniteSets

CONSTANTS
    Writers,    \* threads that change the table
    Swqos,      \* SwqosType::values()
    Default,    \* SwqosType::Default
    Prices,     \* values of cu_price (cu_limit goes with it)
    Tips,       \* values of tip, 0 included
    NoValue,    \* no entry under a key
    MaxOps      \* operations a writer starts

ASSUME DefaultAssumption == Default \in Swqos
ASSUME TipsAssumption == 0 \in Tips
ASSUME MaxOpsAssumption == MaxOps \in Nat

Trades == {"Buy", "Sell"}
StrategyTypes == {"Normal", "LowTipHighCuPrice", "HighTipLowCuPrice"}
Keys == Swqos \X Trades \X StrategyTypes
Values == [cu_price : Prices, tip : Tips]

ASSUME NoValueAssumption == NoValue \notin Values

VARIABLES
    strategies, \* the table behind the ArcSwap
    op,         \* op[w]: the public operation w is running, or idle
    todo,       \* todo[w]: service types its loop has still to visit
    calls,      \* calls[w]: set / del / del_all ... calls of this iteration
    stage,      \* stage[w]: dels already done by the `set` call in progress
    ops         \* ops[w]: operations w has started

writerVars == <<op, todo, calls, stage, ops>>
vars == <<strategies, writerVars>>

-----------------------------------------------------------------------------
Present(k, trade, y) == strategies[<<k, trade, y>>] # NoValue

(* Calls.  Each is one rcu, except `set`, which is one per entry it         *)
(* excludes and one more for the insertion.                                 *)
Set(k, trade, y, v) == [call |-> "set", key |-> <<k, trade, y>>, value |-> v]
Del(k, trade, y) == [call |-> "del", key |-> <<k, trade, y>>, value |-> NoValue]
DelAll(k, trade) == [call |-> "del_all", key |-> <<k, trade, "Normal">>, value |-> NoValue]

(* Fault: setting Normal leaves one of the pair in place.                   *)
ExcludedOnlyHighTip(y) ==
    IF y = "Normal" THEN <<"HighTipLowCuPrice">> ELSE <<"Normal">>

(* The strategies `set` deletes, in order, before it inserts.               *)
Excluded(y) ==
    IF y = "Normal"
    THEN <<"HighTipLowCuPrice", "LowTipHighCuPrice">>
    ELSE <<"Normal">>

(* What one rcu makes of the table. *)
Inserted(key, v) == [strategies EXCEPT ![key] = v]
Removed(key) == [strategies EXCEPT ![key] = NoValue]
AllRemoved(k, trade) ==
    [key \in Keys |-> IF key[1] = k /\ key[2] = trade THEN NoValue ELSE strategies[key]]
Updated(trade, field, x) ==
    [key \in Keys |-> IF key[2] = trade /\ strategies[key] # NoValue
                      THEN [strategies[key] EXCEPT ![field] = x]
                      ELSE strategies[key]]

-----------------------------------------------------------------------------
(* The public operations.  An operation over several service types names    *)
(* the types it visits and the calls it makes for one of them; the order of *)
(* the visits is the caller's where they are a slice argument.               *)

(* set_global_fee_strategy: a Normal entry for both trades, no tip for the   *)
(* Default service.                                                          *)
GlobalValue(k, v) == IF k = Default THEN [v EXCEPT !.tip = 0] ELSE v
(* Fault: the sells keep what they had.                                      *)
GlobalBuyOnly(k, o) == <<Set(k, "Buy", "Normal", GlobalValue(k, o.v1))>>

Global(k, o) ==
    <<Set(k, "Buy", "Normal", GlobalValue(k, o.v1)),
      Set(k, "Sell", "Normal", GlobalValue(k, o.v2))>>

(* set_high_low_fee_strategies / set_high_low_fee_strategy.                 *)
HighLow(k, o) ==
    <<Del(k, o.trade, "Normal"),
      Set(k, o.trade, "LowTipHighCuPrice", o.v1),
      Set(k, o.trade, "HighTipLowCuPrice", o.v2)>>

(* set_normal_fee_strategies / set_normal_fee_strategy.                     *)
Normal(k, o) ==
    <<DelAll(k, "Buy"), DelAll(k, "Sell"),
      Set(k, "Buy", "Normal", o.v1), Set(k, "Sell", "Normal", o.v2)>>

Body(k, o) ==
    CASE o.name = "global" -> Global(k, o)
      [] o.name = "high_low" -> HighLow(k, o)
      [] o.name = "normal" -> Normal(k, o)
      [] o.name = "set" -> <<Set(k, o.trade, o.y, o.v1)>>
      [] o.name = "del" -> <<Del(k, o.trade, o.y)>>
      [] o.name = "del_all" -> <<DelAll(k, o.trade)>>
      [] o.name = "none" -> << >>

Idle == [name |-> "none"]

GlobalOps == [name : {"global"}, v1 : Values, v2 : Values]
HighLowOps == [name : {"high_low"}, trade : Trades, v1 : Values, v2 : Values]
NormalOps == {o \in [name : {"normal"}, v1 : Values, v2 : Values] :
                o.v1.cu_price = o.v2.cu_price}
SingleOps == [name : {"set"}, trade : Trades, y : StrategyTypes, v1 : Values]
                \cup [name : {"del"}, trade : Trades, y : StrategyTypes]
                \cup [name : {"del_all"}, trade : Trades]

-----------------------------------------------------------------------------
Init ==
    /\ strategies = [key \in Keys |-> NoValue]
    /\ op = [w \in Writers |-> Idle]
    /\ todo = [w \in Writers |-> {}]
    /\ calls = [w \in Writers |-> << >>]
    /\ stage = [w \in Writers |-> 0]
    /\ ops = [w \in Writers |-> 0]

CanStart(w) == op[w] = Idle /\ ops[w] < MaxOps

Begin(w, o, K) ==
    /\ CanStart(w)
    /\ op' = [op EXCEPT ![w] = o]
    /\ todo' = [todo EXCEPT ![w] = K]
    /\ ops' = [ops EXCEPT ![w] = @ + 1]
    /\ UNCHANGED <<strategies, calls, stage>>

SetGlobalFeeStrategy(w) == \E o \in GlobalOps : Begin(w, o, Swqos)

SetHighLowFeeStrategies(w) ==
    \E o \in HighLowOps, K \in SUBSET Swqos : Begin(w, o, K)

(* The variant for one service type ignores Default. *)
SetHighLowFeeStrategy(w) ==
    \E o \in HighLowOps, k \in Swqos : Begin(w, o, {k} \ {Default})

SetNormalFeeStrategies(w) ==
    \E o \in NormalOps, K \in SUBSET Swqos : Begin(w, o, K)

SetOrDelete(w) == \E o \in SingleOps, k \in Swqos : Begin(w, o, {k})

(* The operations that are a single store or rcu. *)
Atomically(w, table) ==
    /\ CanStart(w)
    /\ strategies' = table
    /\ ops' = [ops EXCEPT ![w] = @ + 1]
    /\ UNCHANGED <<op, todo, calls, stage>>

Clear(w) == Atomically(w, [key \in Keys |-> NoValue])

UpdateTip(w) ==
    \E trade \in Trades, x \in Tips : Atomically(w, Updated(trade, "tip", x))

UpdateCuPrice(w) ==
    \E trade \in Trades, x \in Prices : Atomically(w, Updated(trade, "cu_price", x))

-----------------------------------------------------------------------------
(* The loop over the service types and the calls of one iteration; the       *)
(* global operation comes to Default last.                                   *)
Visit(w) ==
    /\ calls[w] = << >>
    /\ \E k \in todo[w] :
        /\ op[w].name = "global" /\ k = Default => todo[w] = {Default}
        /\ todo' = [todo EXCEPT ![w] = @ \ {k}]
        /\ calls' = [calls EXCEPT ![w] = Body(k, op[w])]
    /\ UNCHANGED <<strategies, op, stage, ops>>

Finish(w) ==
    /\ op[w] # Idle
    /\ calls[w] = << >>
    /\ todo[w] = {}
    /\ op' = [op EXCEPT ![w] = Idle]
    /\ UNCHANGED <<strategies, todo, calls, stage, ops>>

Returned(w) ==
    /\ calls' = [calls EXCEPT ![w] = Tail(@)]
    /\ stage' = [stage EXCEPT ![w] = 0]
    /\ UNCHANGED <<op, todo, ops>>

DelCall(w, c) ==
    /\ c.call = "del"
    /\ strategies' = Removed(c.key)
    /\ Returned(w)

DelAllCall(w, c) ==
    /\ c.call = "del_all"
    /\ strategies' = AllRemoved(c.key[1], c.key[2])
    /\ Returned(w)

SetDelete(w, c) ==
    /\ c.call = "set"
    /\ stage[w] < Len(Excluded(c.key[3]))
    /\ strategies' = Removed(<<c.key[1], c.key[2], Excluded(c.key[3])[stage[w] + 1]>>)
    /\ stage' = [stage EXCEPT ![w] = @ + 1]
    /\ UNCHANGED <<op, todo, calls, ops>>

SetInsert(w, c) ==
    /\ c.call = "set"
    /\ stage[w] = Len(Excluded(c.key[3]))
    /\ strategies' = Inserted(c.key, c.value)
    /\ Returned(w)

Call(w) ==
    /\ calls[w] # << >>
    /\ LET c == Head(calls[w])
       IN  DelCall(w, c) \/ DelAllCall(w, c) \/ SetDelete(w, c) \/ SetInsert(w, c)

Write(w) ==
    \/ SetGlobalFeeStrategy(w) \/ SetHighLowFeeStrategies(w)
    \/ SetHighLowFeeStrategy(w) \/ SetNormalFeeStrategies(w)
    \/ SetOrDelete(w) \/ Clear(w) \/ UpdateTip(w) \/ UpdateCuPrice(w)
    \/ Visit(w) \/ Call(w) \/ Finish(w)

Next == \E w \in Writers : Write(w)

Spec == Init /\ [][Next]_vars

(* get_strategies: the entries of one trade type in one loaded table.       *)
get_strategies(trade) ==
    {<<e[1], e[2], strategies[<<e[1], trade, e[2]>>]>> :
        e \in {p \in Swqos \X StrategyTypes : Present(p[1], trade, p[2])}}

-----------------------------------------------------------------------------
Calls == [call : {"set", "del", "del_all"}, key : Keys, value : Values \cup {NoValue}]

TypeOK ==
    /\ strategies \in [Keys -> Values \cup {NoValue}]
    /\ op \in [Writers -> {Idle} \cup GlobalOps \cup HighLowOps \cup NormalOps \cup SingleOps]
    /\ todo \in [Writers -> SUBSET Swqos]
    /\ calls \in [Writers -> Seq(Calls)]
    /\ stage \in [Writers -> 0..2]
    /\ ops \in [Writers -> 0..MaxOps]

Conflict(k, trade) ==
    /\ Present(k, trade, "Normal")
    /\ \/ Present(k, trade, "LowTipHighCuPrice")
       \/ Present(k, trade, "HighTipLowCuPrice")

(* "Will remove the high-low strategies", "Will remove the default strategy":  *)
(* a reader of the table never sees a Normal entry beside one of the pair.    *)
(* It is what the comments of the set operations say, without a word about    *)
(* who else writes.                                                           *)
NormalExcludesHighLow ==
    \A k \in Swqos, trade \in Trades : ~Conflict(k, trade)
=============================================================================
