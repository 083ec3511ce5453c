------------------------------ MODULE TxBuilder ------------------------------
(***************************************************************************)
(* Concurrent tasks that build, sign and serialize one transaction each:    *)
(* trading/common/transaction_builder.rs, nonce_manager.rs,                 *)
(* compute_budget_manager.rs, the middleware chain, the builder pool of     *)
(* trading/core/transaction_pool.rs and the buffer pool of                  *)
(* swqos/serialization.rs, after the lookups of common/fast_fn.rs.  They    *)
(* share the two pools and the caches of addresses, account creations and   *)
(* compute budget instructions; a builder and a buffer are named by a number*)
(* and their memory is shared, so that a task which held one too long or too*)
(* short would see another task's content.                                  *)
(***************************************************************************)
EXTENDS Integers, SequencesExt

CONSTANTS
    Tasks,              \* a set of numbers
    Params,             \* [Tasks -> the arguments of build_transaction, the token account, the encoding]
    MiddlewareChains,   \* sequences of the kinds of middleware
    PoolSize,           \* builders and buffers allocated in advance
    PoolCapacity,       \* of TX_BUILDER_POOL and of buffer_pool
    MaxAllocated,       \* bound on the builders and buffers ever allocated
    MaxNonce            \* bound on the values of the nonce account

ASSUME PoolAssumption == PoolSize \in Nat /\ PoolCapacity \in Nat \ {0} /\ PoolSize <= PoolCapacity
ASSUME TasksAssumption == IsFiniteSet(Tasks)
ASSUME ParamsAssumption ==
    \A t \in Tasks : {"mint", "use_seed"} \subseteq DOMAIN Params[t] /\ Params[t].use_seed \in BOOLEAN
ASSUME ChainsAssumption == MiddlewareChains \subseteq Seq({"log", "append", "clear", "fail"})
ASSUME MaxNonceAssumption == MaxNonce \in Nat
ASSUME AllocatedAssumption == MaxAllocated \in Nat /\ MaxAllocated >= PoolSize + Cardinality(Tasks)

Ids == 1..MaxAllocated
NoId == 0
NoNonce == -1                \* durable_nonce = None
Recent == -2                 \* a recent blockhash; other hashes are values of the nonce
NoHash == -3                 \* recent_blockhash = None
NoMessage == [ins |-> << >>, hash |-> NoHash]
Zeroed == <<NoMessage>>      \* a new buffer is full of zeros

VARIABLES
    middlewares,
    pc,
    durable_nonce,
    full_instructions,
    msg,                     \* the compiled and signed message of a task
    cache,                   \* COMPUTE_BUDGET_CACHE
    ata_cache, instruction_cache,
    builder_pool, builder, my_builder,
    buffer_pool, buffer, my_buffer,
    sent,                    \* the bytes a task hands to its service, as messages
    nonce, landed            \* the chain

pools == <<builder_pool, builder, my_builder>>
buffers == <<buffer_pool, buffer, my_buffer>>
chain == <<nonce, landed>>
accounts == <<ata_cache, instruction_cache>>
vars == <<middlewares, pc, durable_nonce, full_instructions, msg, cache, accounts, pools, buffers, sent, chain>>

-----------------------------------------------------------------------------
Opt(b, instructions) == IF b THEN instructions ELSE << >>

add_nonce_instruction(n) == Opt(n # NoNonce, <<<<"advance_nonce", 0>>>>)
TipInstruction(p) == Opt(p.with_tip /\ p.tip > 0, <<<<"tip", p.tip>>>>)

(* Fault: a recent blockhash comes first.                                    *)
recent_blockhash_first(recent, n) == IF recent # NoHash THEN recent ELSE n

get_transaction_blockhash(recent, n) == IF n # NoNonce THEN n ELSE recent

(* Fault: the unit limit is not part of the key.                             *)
cache_key_price_only(p) == <<p.unit_price, 0>>

cache_key(p) == <<p.unit_price, p.unit_limit>>
compute_budget_instructions(p) ==
    Opt(p.unit_price > 0, <<<<"unit_price", p.unit_price>>>>)
        \o Opt(p.unit_limit > 0, <<<<"unit_limit", p.unit_limit>>>>)

(* One middleware: it may keep, extend or empty the list, or fail.           *)
Failed == <<<<"failed", 0>>>>
process_full_instructions(kind, instructions) ==
    CASE kind = "log" -> instructions
      [] kind = "append" -> Append(instructions, <<"memo", 0>>)
      [] kind = "clear" -> << >>
      [] kind = "fail" -> Failed

(* The loop over the chain stops at an error and at an empty list.           *)
apply_middlewares_process_full_instructions(chain_, instructions) ==
    LET list[i \in 0..Len(chain_)] ==
            IF i = 0 THEN instructions
            ELSE IF list[i - 1] \in {<< >>, Failed} THEN list[i - 1]
            ELSE process_full_instructions(chain_[i], list[i - 1])
    IN  list[Len(chain_)]

-----------------------------------------------------------------------------
Init ==
    /\ middlewares \in MiddlewareChains
    /\ pc = [t \in Tasks |-> "begin"]
    /\ durable_nonce = [t \in Tasks |-> NoNonce]
    /\ full_instructions = [t \in Tasks |-> << >>]
    /\ msg = [t \in Tasks |-> NoMessage]
    /\ cache = << >>
    /\ ata_cache = << >> /\ instruction_cache = << >>
    /\ builder_pool = [i \in 1..PoolSize |-> i] /\ buffer_pool = [i \in 1..PoolSize |-> i]
    /\ builder = [i \in Ids |-> << >>] /\ buffer = [i \in Ids |-> Zeroed]
    /\ my_builder = [t \in Tasks |-> NoId] /\ my_buffer = [t \in Tasks |-> NoId]
    /\ sent = [t \in Tasks |-> << >>]
    /\ nonce = 0 /\ landed = {}

(* What a cache holds after an insert, which replaces an older value.        *)
Insert(map, key, value) == [k \in DOMAIN map \cup {key} |-> IF k = key THEN value ELSE map[k]]

At(t, from, to) == pc[t] = from /\ pc' = [pc EXCEPT ![t] = to]

-----------------------------------------------------------------------------
(* The business instructions.  Clients with and without use_seed_optimize    *)
(* share the caches of fast_fn.rs: the address is looked up and inserted in  *)
(* two steps, the creation under the lock of its entry.                      *)
TokenAddress(mint, use_seed) == <<mint, IF use_seed THEN "seed" ELSE "ata">>

(* Fault: the scheme is not part of the key.                                 *)
ata_key_mint_only(p) == <<p.mint, FALSE>>

ata_key(p) == <<p.mint, p.use_seed>>
instruction_key(p) == <<p.mint, p.use_seed>>

Deliver(t, address) == full_instructions' = [full_instructions EXCEPT ![t] = <<<<"swap", t, address>>>>]

AddressHit(t) ==
    /\ ata_key(Params[t]) \in DOMAIN ata_cache
    /\ At(t, "begin", "create")
    /\ Deliver(t, ata_cache[ata_key(Params[t])])
    /\ UNCHANGED <<middlewares, accounts, durable_nonce, msg, cache, pools, buffers, sent, chain>>

AddressMiss(t) ==
    /\ ata_key(Params[t]) \notin DOMAIN ata_cache
    /\ At(t, "begin", "address")
    /\ UNCHANGED <<middlewares, accounts, durable_nonce, full_instructions, msg, cache, pools, buffers, sent, chain>>

AddressInsert(t) ==
    LET address == TokenAddress(Params[t].mint, Params[t].use_seed)
    IN  /\ At(t, "address", "create")
        /\ Deliver(t, address)
        /\ ata_cache' = Insert(ata_cache, ata_key(Params[t]), address)
        /\ UNCHANGED <<middlewares, instruction_cache, durable_nonce, msg, cache, pools, buffers, sent, chain>>

(* Without seed the creation takes its address from ATA_CACHE as well.       *)
get_cached_instructions(t) ==
    LET key == instruction_key(Params[t])
        p == [Params[t] EXCEPT !.use_seed = FALSE]
        address == IF ~Params[t].use_seed /\ ata_key(p) \in DOMAIN ata_cache
                   THEN ata_cache[ata_key(p)]
                   ELSE TokenAddress(Params[t].mint, Params[t].use_seed)
        creation == IF key \in DOMAIN instruction_cache THEN instruction_cache[key] ELSE address
    IN  /\ At(t, "create", "idle")
        /\ instruction_cache' = Insert(instruction_cache, key, creation)
        /\ full_instructions' = [full_instructions EXCEPT ![t] = <<<<"create", t, creation>>>> \o @]
        /\ UNCHANGED <<middlewares, ata_cache, durable_nonce, msg, cache, pools, buffers, sent, chain>>

-----------------------------------------------------------------------------
(* fetch_nonce_info by the caller: None when the account cannot be read.     *)
fetch_nonce_info(t) ==
    /\ At(t, "idle", "ready")
    /\ \E n \in {nonce, NoNonce} : durable_nonce' = [durable_nonce EXCEPT ![t] = n]
    /\ UNCHANGED <<middlewares, accounts, full_instructions, msg, cache, pools, buffers, sent, chain>>

(* Everything before the business instructions is local but the cache.       *)
Assembled(t, budget) ==
    add_nonce_instruction(durable_nonce[t]) \o TipInstruction(Params[t]) \o budget \o full_instructions[t]

(* The unwrap of get_transaction_blockhash.                                  *)
HasBlockhash(t) == get_transaction_blockhash(Params[t].recent, durable_nonce[t]) \notin {NoHash, NoNonce}

CacheHit(t) ==
    /\ cache_key(Params[t]) \in DOMAIN cache
    /\ At(t, "ready", IF HasBlockhash(t) THEN "middleware" ELSE "panicked")
    /\ full_instructions' = [full_instructions EXCEPT ![t] = Assembled(t, cache[cache_key(Params[t])])]
    /\ UNCHANGED <<middlewares, accounts, durable_nonce, msg, cache, pools, buffers, sent, chain>>

CacheMiss(t) ==
    /\ cache_key(Params[t]) \notin DOMAIN cache
    /\ At(t, "ready", "miss")
    /\ UNCHANGED <<middlewares, accounts, durable_nonce, full_instructions, msg, cache, pools, buffers, sent, chain>>

CacheInsert(t) ==
    /\ At(t, "miss", IF HasBlockhash(t) THEN "middleware" ELSE "panicked")
    /\ LET insts == compute_budget_instructions(Params[t])
       IN  /\ cache' = Insert(cache, cache_key(Params[t]), insts)
           /\ full_instructions' = [full_instructions EXCEPT ![t] = Assembled(t, insts)]
    /\ UNCHANGED <<middlewares, accounts, durable_nonce, msg, pools, buffers, sent, chain>>

build_versioned_transaction(t) ==
    LET processed == apply_middlewares_process_full_instructions(middlewares, full_instructions[t])
    IN  /\ At(t, "middleware", IF processed = Failed THEN "refused" ELSE "acquire")
        /\ full_instructions' = [full_instructions EXCEPT ![t] = processed]
        /\ UNCHANGED <<middlewares, accounts, durable_nonce, msg, cache, pools, buffers, sent, chain>>

-----------------------------------------------------------------------------
(* ArrayQueue: pop takes the oldest element, push drops what does not fit.   *)
Fresh(mine) == Min(Ids \ {mine[t] : t \in Tasks})
Taken(pool, mine) == IF pool = << >> THEN Fresh(mine) ELSE Head(pool)

(* Fault: the element stays in the queue.                                    *)
PopKept(pool) == pool

Pop(pool) == IF pool = << >> THEN pool ELSE Tail(pool)

(* Fault: the capacity is not looked at.                                     *)
PushUnbounded(pool, id) == Append(pool, id)

(* Fault: what comes back is thrown away.                                    *)
PushDropped(pool, id) == pool

Push(pool, id) == IF Len(pool) < PoolCapacity THEN Append(pool, id) ELSE pool

acquire_builder(t) ==
    /\ At(t, "acquire", "fill")
    /\ my_builder' = [my_builder EXCEPT ![t] = Taken(builder_pool, my_builder)]
    /\ builder_pool' = Pop(builder_pool)
    /\ UNCHANGED <<middlewares, accounts, durable_nonce, full_instructions, msg, cache, builder, buffers, sent, chain>>

(* build_zero_alloc: reset, copy, compile.                                   *)
Fill(t) ==
    /\ At(t, "fill", "compile")
    /\ builder' = [builder EXCEPT ![my_builder[t]] = full_instructions[t]]
    /\ UNCHANGED <<middlewares, accounts, durable_nonce, full_instructions, msg, cache, builder_pool, my_builder, buffers, sent, chain>>

Compile(t) ==
    /\ At(t, "compile", "release")
    /\ msg' = [msg EXCEPT ![t] =
                  [ins |-> builder[my_builder[t]],
                   hash |-> get_transaction_blockhash(Params[t].recent, durable_nonce[t])]]
    /\ UNCHANGED <<middlewares, accounts, durable_nonce, full_instructions, cache, pools, buffers, sent, chain>>

(* A message with a lookup table may not compile; the builder is lost.       *)
CompilePanics(t) ==
    /\ Params[t].lookup_table
    /\ At(t, "compile", "panicked")
    /\ my_builder' = [my_builder EXCEPT ![t] = NoId]
    /\ UNCHANGED <<middlewares, accounts, durable_nonce, full_instructions, msg, cache, builder_pool, builder, buffers, sent, chain>>

release_builder(t) ==
    /\ At(t, "release", "built")
    /\ builder' = [builder EXCEPT ![my_builder[t]] = << >>]
    /\ builder_pool' = Push(builder_pool, my_builder[t])
    /\ my_builder' = [my_builder EXCEPT ![t] = NoId]
    /\ UNCHANGED <<middlewares, accounts, durable_nonce, full_instructions, msg, cache, buffers, sent, chain>>

-----------------------------------------------------------------------------
(* Fault: the bytes are added to those the buffer still holds.               *)
clear_forgotten(contents) == contents

clear(contents) == << >>

(* serialize_zero_alloc; when bincode fails the buffer is dropped.  A buffer  *)
(* comes back from its last use with the transaction in it.                  *)
serialize_zero_alloc(t) ==
    LET b == Taken(buffer_pool, my_buffer)
        contents == IF buffer_pool = << >> THEN Zeroed ELSE buffer[b]
    IN  /\ buffer_pool' = Pop(buffer_pool)
        /\ \/ /\ At(t, "built", "serialized")
              /\ my_buffer' = [my_buffer EXCEPT ![t] = b]
              /\ buffer' = [buffer EXCEPT ![b] = Append(clear(contents), msg[t])]
           \/ /\ At(t, "built", "buffer_lost")
              /\ UNCHANGED <<my_buffer, buffer>>
        /\ UNCHANGED <<middlewares, accounts, durable_nonce, full_instructions, msg, cache, pools, sent, chain>>

return_buffer(t) ==
    /\ buffer_pool' = Push(buffer_pool, my_buffer[t])
    /\ my_buffer' = [my_buffer EXCEPT ![t] = NoId]
    /\ UNCHANGED buffer

(* serialize_transaction_sync: another encoding drops the buffer.            *)
serialize_transaction_sync(t) ==
    /\ Params[t].encoding # "bincode"
    /\ IF Params[t].encoding \in {"Base58", "Base64"}
       THEN /\ At(t, "serialized", "done")
            /\ sent' = [sent EXCEPT ![t] = buffer[my_buffer[t]]]
            /\ return_buffer(t)
       ELSE /\ At(t, "serialized", "buffer_lost")
            /\ my_buffer' = [my_buffer EXCEPT ![t] = NoId]
            /\ UNCHANGED <<sent, buffer_pool, buffer>>
    /\ UNCHANGED <<middlewares, accounts, durable_nonce, full_instructions, msg, cache, pools, chain>>

(* The QUIC clients write from the buffer of a PooledTxBufGuard, twice if    *)
(* the first attempt fails, and the guard returns it when it is dropped.     *)
SendFromBuffer(t) ==
    /\ Params[t].encoding = "bincode"
    /\ pc[t] \in {"serialized", "sending"}
    /\ pc' = [pc EXCEPT ![t] = "sending"]
    /\ sent' = [sent EXCEPT ![t] = buffer[my_buffer[t]]]
    /\ UNCHANGED <<middlewares, accounts, durable_nonce, full_instructions, msg, cache, pools, buffers, chain>>

DropGuard(t) ==
    /\ Params[t].encoding = "bincode"
    /\ pc[t] \in {"serialized", "sending"}
    /\ pc' = [pc EXCEPT ![t] = "done"]
    /\ return_buffer(t)
    /\ UNCHANGED <<middlewares, accounts, durable_nonce, full_instructions, msg, cache, pools, sent, chain>>

-----------------------------------------------------------------------------
(* The chain accepts one transaction, with no other bytes around it, whose   *)
(* blockhash is recent, or is the value of the nonce account if its first    *)
(* instruction advances it.                                                  *)
Advances(m) == m.ins # << >> /\ Head(m.ins)[1] = "advance_nonce"

Land(t) ==
    /\ t \notin landed /\ Len(sent[t]) = 1
    /\ nonce < MaxNonce
    /\ LET m == sent[t][1]
       IN  /\ m.ins # << >>
           /\ \/ m.hash = Recent
              \/ m.hash = nonce /\ Advances(m)
           /\ nonce' = IF Advances(m) THEN nonce + 1 ELSE nonce
    /\ landed' = landed \cup {t}
    /\ UNCHANGED <<middlewares, accounts, pc, durable_nonce, full_instructions, msg, cache, pools, buffers, sent>>

Build(t) ==
    \/ AddressHit(t) \/ AddressMiss(t) \/ AddressInsert(t) \/ get_cached_instructions(t)
    \/ fetch_nonce_info(t)
    \/ CacheHit(t) \/ CacheMiss(t) \/ CacheInsert(t)
    \/ build_versioned_transaction(t)
    \/ acquire_builder(t) \/ Fill(t) \/ Compile(t) \/ CompilePanics(t) \/ release_builder(t)

Submit(t) ==
    serialize_zero_alloc(t) \/ serialize_transaction_sync(t) \/ SendFromBuffer(t) \/ DropGuard(t)

Next == \E t \in Tasks : Build(t) \/ Submit(t) \/ Land(t)

Spec == Init /\ [][Next]_vars

-----------------------------------------------------------------------------
PcValues ==
    {"begin", "address", "create", "idle", "ready", "miss", "middleware", "refused", "panicked", "acquire", "fill", "compile",
     "release", "built", "serialized", "sending", "buffer_lost", "done"}

(* A builder is held exactly between acquire and release, a buffer exactly   *)
(* while there are bytes to send, and the pools keep within their capacity.  *)
TypeOK ==
    /\ pc \in [Tasks -> PcValues]
    /\ my_builder \in [Tasks -> Ids \cup {NoId}] /\ my_buffer \in [Tasks -> Ids \cup {NoId}]
    /\ \A t \in Tasks :
          /\ my_builder[t] # NoId <=> pc[t] \in {"fill", "compile", "release"}
          /\ my_buffer[t] # NoId <=> pc[t] \in {"serialized", "sending"}
    /\ Len(builder_pool) <= PoolCapacity /\ Len(buffer_pool) <= PoolCapacity
    /\ nonce \in 0..MaxNonce /\ landed \subseteq Tasks

(* What a transaction should hold: the nonce is advanced first, the budget   *)
(* is the one asked for whoever filled the cache, no middleware works on an  *)
(* emptied list.                                                             *)
Wanted(t) ==
    LET p == Params[t]
        built == Opt(durable_nonce[t] # NoNonce, <<<<"advance_nonce", 0>>>>)
                     \o Opt(p.with_tip /\ p.tip > 0, <<<<"tip", p.tip>>>>)
                     \o Opt(p.unit_price > 0, <<<<"unit_price", p.unit_price>>>>)
                     \o Opt(p.unit_limit > 0, <<<<"unit_limit", p.unit_limit>>>>)
                     \o <<<<"create", t, TokenAddress(p.mint, p.use_seed)>>,
                          <<"swap", t, TokenAddress(p.mint, p.use_seed)>>>>
    IN  IF "clear" \in ToSet(middlewares)
        THEN << >>
        ELSE built \o [i \in 1..Cardinality({j \in DOMAIN middlewares : middlewares[j] = "append"}) |-> <<"memo", 0>>]

(* Tasks share the caches and the pooled builders, and still every signed    *)
(* message holds what its own caller asked for; it delivers to the account   *)
(* that it creates, though address and creation come from two caches that    *)
(* clients with the other scheme fill as well.                               *)
MessageIsOwn == \A t \in Tasks : msg[t] # NoMessage => msg[t].ins = Wanted(t)

(* Bytes are written from a pooled buffer that other tasks have filled       *)
(* before and after: they are those of the transaction that the task signed, *)
(* all of them and no others.                                                *)
SendsOwnBytes == \A t \in Tasks : sent[t] # << >> => sent[t] = <<msg[t]>>

(* No builder and no buffer is in the hands of two tasks, or of a task and   *)
(* the pool, or twice in the pool; a pooled builder is empty.                *)
NoSharing ==
    /\ \A mine \in {my_builder, my_buffer}, t, u \in Tasks : t # u /\ mine[t] # NoId => mine[t] # mine[u]
    /\ \A t \in Tasks : my_builder[t] \notin ToSet(builder_pool) /\ my_buffer[t] \notin ToSet(buffer_pool)
    /\ IsInjective(builder_pool) /\ IsInjective(buffer_pool)
    /\ \A i \in ToSet(builder_pool) : builder[i] = << >>

(* The pools only shrink by what is in use and by failures: a builder for    *)
(* each panic, a buffer for each failed serialization.                       *)
PoolsAreConserved ==
    LET InState(states) == Cardinality({t \in Tasks : pc[t] \in states})
    IN  /\ Len(builder_pool) + InState({"fill", "compile", "release", "panicked"}) >= PoolSize
        /\ Len(buffer_pool) + InState({"serialized", "sending", "buffer_lost"}) >= PoolSize

(* Of the transactions that were built with one value of the nonce account   *)
(* at most one lands, although nothing marks the value as used.              *)
OneTradePerNonce ==
    \A t, u \in landed : t # u /\ durable_nonce[t] # NoNonce => durable_nonce[t] # durable_nonce[u]

(* Every builder and every buffer is in one place, and none is lost but to   *)
(* a failure, while pools run empty and overflow.                            *)
PoolsAreSound == TypeOK /\ NoSharing /\ PoolsAreConserved
==============================================================================
